---- MODULE Spec2Model ----
(***************************************************************************)
(* A model of cupyx.distributed: the index algebra over strided slices,    *)
(* the _DistributedArray of src/cupyx/distributed/_array.py (one chunk per *)
(* device, REPLICA and SUM modes, mode conversion, reshard, element-wise   *)
(* and reduction kernels, asnumpy) and the distributed_array factory.      *)
(*                                                                         *)
(* Python values are modelled as follows.                                  *)
(*   slice          a record with the fields start, stop, step; a field    *)
(*                  that is None in Python is absent from the record       *)
(*   index item     a slice, [int |-> k] for an integer, or [other |-> ..] *)
(*   number         [re, im] with integral parts; im is 0 in the real      *)
(*                  dtypes                                                 *)
(*   ndarray        [shape, dtype, device, v]: v maps every coordinate     *)
(*                  (a tuple of 0-based positions) to the number held      *)
(*   dict           a sequence of [key, val] in insertion order            *)
(*   exception      [err |-> "<type>"]                                     *)
(*   None           [none |-> TRUE]                                        *)
(***************************************************************************)
EXTENDS Integers, Sequences, FiniteSets, TLC

VARIABLES host, chain

vars == <<host, chain>>

-----------------------------------------------------------------------------
(* Bounds of the model. *)

MaxLen == 3
MaxStep == 2
MaxDevs == 3
MaxVal == 1
MaxOps == 2

-----------------------------------------------------------------------------
(* Python values. *)

NoneVal == [none |-> TRUE]

IsNone(x) == "none" \in DOMAIN x

Raise(kind) == [err |-> kind]

IsErr(x) == "err" \in DOMAIN x

(* A statement `v = r` followed by the statements K(v): an exception r     *)
(* raises propagates, skipping them.                                       *)
Bind(r, K(_)) == IF IsErr(r) THEN r ELSE K(r)

(* The same for the items of a comprehension, computed in order: the      *)
(* exception of the first item that raises propagates.                     *)
BindAll(seq, K(_)) ==
    IF \E k \in DOMAIN seq : IsErr(seq[k])
    THEN seq[CHOOSE k \in DOMAIN seq :
                 IsErr(seq[k]) /\ \A m \in 1 .. k - 1 : ~IsErr(seq[m])]
    ELSE K(seq)

(* The same for a value that cannot be an exception. *)
With(r, K(_)) == K(r)

(* A tuple, list or buffer holds its items: Stored(f) is the function f,    *)
(* tabulated once when it is built (TLC would otherwise recompute an item  *)
(* of a function constructor at every application).                        *)
Stored(f) == IF f = f THEN f ELSE f

Min(a, b) == IF a <= b THEN a ELSE b

Max(a, b) == IF a >= b THEN a ELSE b

Slice(a, b, c) == [start |-> a, stop |-> b, step |-> c]

(* slice(None): every field absent. *)
FullSlice == [slice |-> TRUE]

Range(n) == 0 .. (n - 1)

(* slice.indices(length): the (start, stop, step) a slice denotes on an    *)
(* axis of the given length; ValueError for a zero step.                   *)
indices(s, length) ==
    LET step == IF "step" \in DOMAIN s THEN s.step ELSE 1
        lower == IF step < 0 THEN -1 ELSE 0
        upper == IF step < 0 THEN length - 1 ELSE length
        clip(x) == IF x < 0 THEN Max(x + length, lower) ELSE Min(x, upper)
        start == IF "start" \in DOMAIN s THEN clip(s.start)
                 ELSE IF step < 0 THEN upper ELSE lower
        stop == IF "stop" \in DOMAIN s THEN clip(s.stop)
                ELSE IF step < 0 THEN lower ELSE upper
    IN  IF step = 0 THEN Raise("ValueError") ELSE Slice(start, stop, step)

(* len(range(start, stop, step)) for a positive step. *)
RangeLen(start, stop, step) ==
    IF stop > start THEN (stop - start - 1) \div step + 1 ELSE 0

-----------------------------------------------------------------------------
(* Index algebra. *)

RECURSIVE _extgcd_loop(_, _, _, _)
_extgcd_loop(c, d, x, u) ==
    IF d = 0 THEN <<c, x>>
    ELSE LET r == c \div d
         IN  _extgcd_loop(d, c - d * r, u, x - u * r)

_extgcd(a, b) == _extgcd_loop(a, b, 1, 0)

(* The result were c_stop taken from a alone. *)
_slice_intersection_stop_of_a(ai, bi, c_step, c_start) ==
    IF c_start < ai.stop THEN Slice(c_start, ai.stop, c_step) ELSE NoneVal

(* The result, c_start being final (lines 53-57). *)
_slice_intersection_stop(ai, bi, c_step, c_start) ==
    IF c_start < Min(ai.stop, bi.stop)
    THEN Slice(c_start, Min(ai.stop, bi.stop), c_step)
    ELSE NoneVal

(* The result were c_start left where it is. *)
_slice_intersection_not_advanced(ai, bi, c_step, c_start) ==
    _slice_intersection_stop(ai, bi, c_step, c_start)

(* c_start is advanced to the first element not below b_start (lines      *)
(* 50-51).                                                                 *)
_slice_intersection_from(ai, bi, c_step, c_start) ==
    _slice_intersection_stop(
        ai, bi, c_step,
        IF c_start < bi.start
        THEN c_start + ((bi.start - c_start - 1) \div c_step + 1) * c_step
        ELSE c_start)

(* With g, x = _extgcd(a_step, b_step) and c_step (lines 39-47). *)
_slice_intersection_step(ai, bi, g, x, c_step) ==
    IF (bi.start - ai.start) % g # 0 THEN NoneVal
    ELSE _slice_intersection_from(
             ai, bi, c_step,
             ai.start + ai.step * ((x * ((bi.start - ai.start) \div g))
                                       % (c_step \div ai.step)))

(* The result were c_step the product of the steps. *)
_slice_intersection_product(ai, bi, gx) ==
    _slice_intersection_step(ai, bi, gx[1], gx[2], ai.step * bi.step)

_slice_intersection_gcd(ai, bi, gx) ==
    _slice_intersection_step(ai, bi, gx[1], gx[2],
                             (ai.step \div gx[1]) * bi.step)

(* With ai = a.indices(length) and bi = b.indices(length). *)
_slice_intersection_indices(ai, bi) ==
    _slice_intersection_gcd(ai, bi, _extgcd(ai.step, bi.step))

_slice_intersection(a, b, length) ==
    _slice_intersection_indices(indices(a, length), indices(b, length))

(* The rebased step left in global units. *)
_index_for_subslice_unscaled(ai, si) ==
    Slice((si.start - ai.start) \div ai.step,
          (si.stop - ai.start - 1) \div ai.step + 1,
          si.step)

(* With ai = a.indices(length) and si = sub.indices(length). *)
_index_for_subslice_indices(ai, si) ==
    Slice((si.start - ai.start) \div ai.step,
          (si.stop - ai.start - 1) \div ai.step + 1,
          si.step \div ai.step)

_index_for_subslice(a, sub, length) ==
    _index_for_subslice_indices(indices(a, length), indices(sub, length))

(* With result, the tuple of the per-axis intersections. *)
_index_intersection_result(result) ==
    IF \E i \in DOMAIN result : IsNone(result[i]) THEN NoneVal
    ELSE [idx |-> result]

_index_intersection(a_idx, b_idx, shape) ==
    IF ~(Len(a_idx) = Len(b_idx) /\ Len(b_idx) = Len(shape))
    THEN Raise("AssertionError")
    ELSE _index_intersection_result(
             Stored([i \in 1 .. Len(shape) |->
                 _slice_intersection(a_idx[i], b_idx[i], shape[i])]))

_index_for_subindex(a_idx, sub_idx, shape) ==
    IF ~(Len(a_idx) = Len(sub_idx) /\ Len(sub_idx) = Len(shape))
    THEN Raise("AssertionError")
    ELSE [idx |-> Stored([i \in 1 .. Len(shape) |->
             _index_for_subslice(a_idx[i], sub_idx[i], shape[i])])]

(* (stop - start - 1) // step + 1 of t = idx[i].indices(shape[i]). *)
_shape_after_indexing_axis(t) == (t.stop - t.start - 1) \div t.step + 1

_shape_after_indexing(outer_shape, idx) ==
    Stored([i \in 1 .. Len(outer_shape) |->
        IF i <= Len(idx)
        THEN _shape_after_indexing_axis(indices(idx[i], outer_shape[i]))
        ELSE outer_shape[i]])

(* The branch of the loop for a slice, t = idx[i].indices(shape[i]). *)
_convert_slice(t) ==
    IF IsErr(t) THEN Raise("ValueError")
    ELSE IF t.step < 0 THEN Raise("ValueError")
    ELSE IF t.start = t.stop THEN Raise("ValueError")
    ELSE t

(* The loop of _convert_chunk_idx_to_slices over the axes, one item each.  *)
_convert_item(item, dim) ==
    IF "int" \in DOMAIN item
    THEN IF item.int >= dim THEN Raise("IndexError")
         ELSE [start |-> item.int, stop |-> item.int + 1]
    ELSE IF "other" \in DOMAIN item THEN Raise("ValueError")
    ELSE _convert_slice(indices(item, dim))

(* The exception of the first axis that raises, or the tuple. *)
_convert_result(new_idx, bad) ==
    IF bad # {}
    THEN new_idx[CHOOSE i \in bad : \A j \in bad : i <= j]
    ELSE [idx |-> new_idx]

_convert_items(new_idx) ==
    _convert_result(new_idx, {i \in DOMAIN new_idx : IsErr(new_idx[i])})

(* idx is the tuple of index items (a lone item is wrapped by the caller   *)
(* exactly as `idx = idx,` does).                                          *)
_convert_chunk_idx_to_slices(shape, idx) ==
    IF Len(idx) > Len(shape) THEN Raise("IndexError")
    ELSE _convert_items(
             Stored([i \in 1 .. Len(shape) |->
                 _convert_item(
                     IF i <= Len(idx) THEN idx[i] ELSE FullSlice,
                     shape[i])]))

-----------------------------------------------------------------------------
(* ndarray: numpy/cupy arrays, basic slicing, assignment and kernels.      *)
(* The dtypes are int64, float64 and complex128, the numbers have small    *)
(* integral parts: a cast between int64 and float64 keeps such a number,   *)
(* a cast of a complex number to a real dtype discards the imaginary part  *)
(* (with a ComplexWarning).                                                *)

Num(re, im) == [re |-> re, im |-> im]

Real(x) == Num(x, 0)

astype(x, dtype) == IF dtype = "complex128" THEN x ELSE Real(x.re)

(* The kinds of the dtypes, in the order casting='same_kind' lets a number  *)
(* move along.                                                             *)
KindRank(d) == IF d = "int64" THEN 1 ELSE IF d = "float64" THEN 2 ELSE 3

(* numpy.can_cast(from, to, casting='same_kind'), the rule of an in-place  *)
(* operator.                                                               *)
can_cast(from, to) == KindRank(from) <= KindRank(to)

(* numpy.ndindex: every coordinate of an array of the shape. *)
RECURSIVE Coords(_)
Coords(shape) ==
    IF Len(shape) = 0 THEN {<<>>}
    ELSE {Append(c, i) : c \in Coords(SubSeq(shape, 1, Len(shape) - 1)),
                         i \in Range(shape[Len(shape)])}

NdArray(shape, dtype, device, v) ==
    [shape |-> shape, dtype |-> dtype, device |-> device, v |-> Stored(v)]

(* numpy.result_type of two of the modelled dtypes. *)
result_type(d1, d2) ==
    IF d1 = d2 THEN d1
    ELSE IF "complex128" \in {d1, d2} THEN "complex128"
    ELSE "float64"

(* The view a[idx] of an array of the given shape, idx a tuple of slices   *)
(* with positive steps: its shape and, per axis, the first base position   *)
(* and the stride.  More slices than axes is an IndexError.                *)
ViewOf(t) ==
    [shape |-> Stored([i \in DOMAIN t |->
                   RangeLen(t[i].start, t[i].stop, t[i].step)]),
     start |-> Stored([i \in DOMAIN t |-> t[i].start]),
     step |-> Stored([i \in DOMAIN t |-> t[i].step])]

View(shape, idx) ==
    IF Len(idx) > Len(shape) THEN Raise("IndexError")
    ELSE ViewOf(Stored([i \in 1 .. Len(shape) |->
             indices(IF i <= Len(idx) THEN idx[i] ELSE FullSlice,
                     shape[i])]))

(* The base coordinate of view coordinate c. *)
BaseOf(w, c) == [i \in 1 .. Len(c) |-> w.start[i] + c[i] * w.step[i]]

(* Whether base coordinate b lies in the view, and where. *)
InView(w, b) ==
    \A i \in 1 .. Len(b) :
        /\ b[i] >= w.start[i]
        /\ (b[i] - w.start[i]) % w.step[i] = 0
        /\ (b[i] - w.start[i]) \div w.step[i] < w.shape[i]

ViewCoord(w, b) == [i \in 1 .. Len(b) |-> (b[i] - w.start[i]) \div w.step[i]]

(* a[idx], w being the view idx selects. *)
GetItemView(a, w) ==
    IF IsErr(w) THEN w
    ELSE NdArray(w.shape, a.dtype, a.device,
                 [c \in Coords(w.shape) |-> a.v[BaseOf(w, c)]])

GetItem(a, idx) == GetItemView(a, View(a.shape, idx))

(* numpy broadcasting of a value of shape vs to the shape ts. *)
BroadcastsTo(vs, ts) ==
    /\ Len(vs) <= Len(ts)
    /\ \A k \in 1 .. Len(vs) :
          vs[k] = ts[k + Len(ts) - Len(vs)] \/ vs[k] = 1

BroadcastAt(val, ts, c) ==
    val.v[[k \in 1 .. Len(val.shape) |->
              IF val.shape[k] = 1 THEN 0
              ELSE c[k + Len(ts) - Len(val.shape)]]]

(* a[idx] = val, w being the view idx selects. *)
SetItemView(a, w, val) ==
    IF IsErr(w) THEN w
    ELSE IF "scalar" \notin DOMAIN val /\ ~BroadcastsTo(val.shape, w.shape)
    THEN Raise("ValueError")
    ELSE NdArray(a.shape, a.dtype, a.device,
             [b \in DOMAIN a.v |->
                 IF InView(w, b)
                 THEN astype(IF "scalar" \in DOMAIN val
                             THEN Real(val.scalar)
                             ELSE BroadcastAt(val, w.shape, ViewCoord(w, b)),
                             a.dtype)
                 ELSE a.v[b]])

(* a[idx] = val, val an ndarray or [scalar |-> x]; the number is cast to   *)
(* a's dtype.                                                              *)
SetItem(a, idx, val) == SetItemView(a, View(a.shape, idx), val)

(* Axis i, counted from the left of the longer shape, of shape s1         *)
(* right-aligned to n axes.                                                *)
BroadcastDim(s1, n, i) ==
    IF i + Len(s1) - n >= 1 THEN s1[i + Len(s1) - n] ELSE 1

(* The shape two operands broadcast to, or an error. *)
BroadcastShape(s1, s2) ==
    With(Max(Len(s1), Len(s2)), LAMBDA n :
        IF \E i \in 1 .. n :
               /\ BroadcastDim(s1, n, i) # BroadcastDim(s2, n, i)
               /\ BroadcastDim(s1, n, i) # 1
               /\ BroadcastDim(s2, n, i) # 1
        THEN Raise("ValueError")
        ELSE [shape |-> Stored([i \in 1 .. n |->
                 Max(BroadcastDim(s1, n, i), BroadcastDim(s2, n, i))])])

(* The binary functions the code applies: cupy.add, cupy.maximum (complex  *)
(* numbers are ordered by real part, then imaginary part) and, for         *)
(* element-wise kernels, also multiplication.                              *)
Apply2(f, x, y) ==
    CASE f = "add" -> Num(x.re + y.re, x.im + y.im)
      [] f = "maximum" ->
             IF x.re > y.re \/ (x.re = y.re /\ x.im >= y.im) THEN x ELSE y
      [] f = "multiply" -> Num(x.re * y.re - x.im * y.im,
                               x.re * y.im + x.im * y.re)

(* An element-wise binary kernel on two ndarrays; the output is allocated  *)
(* on the given (current) device.                                          *)
Elementwise2(f, x, y, device) ==
    Bind(BroadcastShape(x.shape, y.shape), LAMBDA bs :
        NdArray(bs.shape, result_type(x.dtype, y.dtype), device,
                [c \in Coords(bs.shape) |->
                    Apply2(f, BroadcastAt(x, bs.shape, c),
                              BroadcastAt(y, bs.shape, c))]))

-----------------------------------------------------------------------------
(* dict: insertion-ordered. *)

DictHas(d, k) == \E i \in 1 .. Len(d) : d[i].key = k

DictGet(d, k) == d[CHOOSE i \in 1 .. Len(d) : d[i].key = k].val

Item(k, x) == [key |-> k, val |-> x]

-----------------------------------------------------------------------------
(* _DistributedArray. *)

REPLICA == "REPLICA"

SUM == "SUM"

(* _DistributedArray.__new__: the fields the constructor stores. *)
_DistributedArray(shape, dtype, chunks, device_mapping, mode) ==
    [shape |-> shape, dtype |-> dtype, chunks |-> chunks,
     device_mapping |-> device_mapping, mode |-> mode]

(* cupy.empty / numpy.empty / empty_like: the contents are whatever the    *)
(* memory held; `fill` stands for them and is drawn by the caller.         *)
empty(shape, dtype, device, fill) ==
    NdArray(shape, dtype, device, [c \in Coords(shape) |-> Real(fill)])

(* ndarray.copy() onto the current device. *)
copy(a, device) == [a EXCEPT !.device = device]

_write_view_to_view(src_array, dst_array, dst_idx) ==
    IF src_array.device = dst_array.device
    THEN SetItem(dst_array, dst_idx, src_array)
    ELSE SetItem(dst_array, dst_idx, copy(src_array, dst_array.device))

(* Returns the two chunks after the call, [src, dst], or the exception.    *)
(* identity is NoneVal or [scalar |-> e].  src_chunk_copied is overwritten *)
(* whole before it is read, so its initial contents do not matter.         *)
_apply_and_update_chunks(func, identity, shape, src_chunk, src_idx, dst_chunk, dst_idx) ==
    Bind(_index_intersection(src_idx, dst_idx, shape), LAMBDA intersection :
    IF IsNone(intersection) THEN [src |-> src_chunk, dst |-> dst_chunk]
    ELSE
    Bind(_index_for_subindex(src_idx, intersection.idx, shape),
         LAMBDA src_new_idx :
    Bind(_index_for_subindex(dst_idx, intersection.idx, shape),
         LAMBDA dst_new_idx :
    Bind(GetItem(src_chunk, src_new_idx.idx), LAMBDA src_view :
    Bind(_write_view_to_view(
             src_view,
             empty(src_view.shape, src_view.dtype, dst_chunk.device, 0),
             <<FullSlice>>), LAMBDA src_chunk_copied :
    Bind(GetItem(dst_chunk, dst_new_idx.idx), LAMBDA dst_view :
    Bind(Elementwise2(func, src_chunk_copied, dst_view, dst_chunk.device),
         LAMBDA applied :
    Bind(SetItem(dst_chunk, dst_new_idx.idx, applied), LAMBDA dst_after :
    Bind(IF IsNone(identity) THEN src_chunk
         ELSE SetItem(src_chunk, src_new_idx.idx, identity),
         LAMBDA src_after :
    [src |-> src_after, dst |-> dst_after])))))))))

(* Returns dst_chunk after the call, or the exception. *)
_send_intersection(shape, src_chunk, src_idx, dst_chunk, dst_idx) ==
    Bind(_index_intersection(src_idx, dst_idx, shape), LAMBDA intersection :
    IF IsNone(intersection) THEN dst_chunk
    ELSE
    Bind(_index_for_subindex(src_idx, intersection.idx, shape),
         LAMBDA src_new_idx :
    Bind(_index_for_subindex(dst_idx, intersection.idx, shape),
         LAMBDA dst_new_idx :
    Bind(GetItem(src_chunk, src_new_idx.idx), LAMBDA src_view :
    _write_view_to_view(src_view, dst_chunk, dst_new_idx.idx)))))

(* The whole of a_chunk is set to 0 when it meets b_idx: the mutant of     *)
(* _set_zero_on_intersection.                                              *)
_set_zero_on_whole(shape, a_chunk, a_idx, b_idx) ==
    Bind(_index_intersection(a_idx, b_idx, shape), LAMBDA intersection :
    IF IsNone(intersection) THEN a_chunk
    ELSE SetItem(a_chunk, [i \in 1 .. Len(a_idx) |-> FullSlice],
                 [scalar |-> 0]))

(* Returns a_chunk after the call, or the exception. *)
_set_zero_on_intersection(shape, a_chunk, a_idx, b_idx) ==
    Bind(_index_intersection(a_idx, b_idx, shape), LAMBDA intersection :
    IF IsNone(intersection) THEN a_chunk
    ELSE
    Bind(_index_for_subindex(a_idx, intersection.idx, shape),
         LAMBDA a_new_idx :
    SetItem(a_chunk, a_new_idx.idx, [scalar |-> 0])))

(* The first pair of loops of _all_reduce_intersections, from (i, j) on:   *)
(* chunks is list(chunks.items()), whose arrays the loop updates in place. *)
RECURSIVE _all_reduce_forward(_, _, _, _, _, _, _)
_all_reduce_forward(func, identity, shape, chunks, device_mapping, i, j) ==
    IF i > Len(chunks) THEN [chunks |-> chunks]
    ELSE IF j > Len(chunks)
    THEN _all_reduce_forward(func, identity, shape, chunks, device_mapping,
                             i + 1, i + 2)
    ELSE Bind(_apply_and_update_chunks(
                  func, identity, shape,
                  chunks[i].val, DictGet(device_mapping, chunks[i].key),
                  chunks[j].val, DictGet(device_mapping, chunks[j].key)),
              LAMBDA r :
                  _all_reduce_forward(
                      func, identity, shape,
                      [chunks EXCEPT ![i].val = r.src, ![j].val = r.dst],
                      device_mapping, i, j + 1))

(* _all_reduce_intersections without its second pair of loops: what the   *)
(* forward sweep folded into the later shards is not sent back.            *)
_all_reduce_no_send(shape, chunks, device_mapping, j, i) ==
    [chunks |-> chunks]

(* The second pair of loops: j runs down from the last chunk, i up to j.   *)
RECURSIVE _all_reduce_backward(_, _, _, _, _)
_all_reduce_backward(shape, chunks, device_mapping, j, i) ==
    IF j < 1 THEN [chunks |-> chunks]
    ELSE IF i >= j
    THEN _all_reduce_backward(shape, chunks, device_mapping, j - 1, 1)
    ELSE Bind(_send_intersection(
                  shape,
                  chunks[j].val, DictGet(device_mapping, chunks[j].key),
                  chunks[i].val, DictGet(device_mapping, chunks[i].key)),
              LAMBDA r :
                  _all_reduce_backward(
                      shape, [chunks EXCEPT ![i].val = r],
                      device_mapping, j, i + 1))

(* Returns [chunks |-> the chunks dict after the call], or the exception. *)
_all_reduce_intersections(func, identity, shape, chunks, device_mapping) ==
    Bind(_all_reduce_forward(func, identity, shape, chunks,
                             device_mapping, 1, 2),
         LAMBDA swept :
             _all_reduce_backward(shape, swept.chunks, device_mapping,
                                  Len(swept.chunks), 1))

(* The buffers _copy_chunks returns are those of self: the mutant of       *)
(* _copy_chunks_shares.                                                    *)
_copy_chunks_of_self(self) == TRUE

(* Whether the buffers _copy_chunks returns are buffers of self:           *)
(* chunk.copy() allocates a buffer for every chunk, so they are not.       *)
_copy_chunks_shares(self) == FALSE

(* self after the chunks of _copy_chunks were written in place and are as  *)
(* given.                                                                  *)
_self_written(self, chunks) ==
    IF _copy_chunks_shares(self) THEN [self EXCEPT !.chunks = chunks] ELSE self

_copy_chunks(self) ==
    Stored([k \in 1 .. Len(self.chunks) |->
        Item(self.chunks[k].key,
             copy(self.chunks[k].val, self.chunks[k].key))])

(* The loops of to_sum_mode over the pairs i < j, from (i, j) on. *)
RECURSIVE _to_sum_loop(_, _, _, _, _)
_to_sum_loop(shape, chunks, device_mapping, i, j) ==
    IF i > Len(chunks) THEN [chunks |-> chunks]
    ELSE IF j > Len(chunks)
    THEN _to_sum_loop(shape, chunks, device_mapping, i + 1, i + 2)
    ELSE Bind(_set_zero_on_intersection(
                  shape, chunks[i].val,
                  DictGet(device_mapping, chunks[i].key),
                  DictGet(device_mapping, chunks[j].key)),
              LAMBDA r :
                  _to_sum_loop(shape, [chunks EXCEPT ![i].val = r],
                               device_mapping, i, j + 1))

(* to_sum_mode without its early return: a SUM array is zeroed again. *)
to_sum_mode_again(self) ==
    Bind(_to_sum_loop(self.shape, _copy_chunks(self),
                      self.device_mapping, 1, 2),
         LAMBDA chunks :
             _DistributedArray(self.shape, self.dtype, chunks.chunks,
                               self.device_mapping, SUM))

to_sum_mode(self) ==
    IF self.mode = SUM THEN self
    ELSE Bind(_to_sum_loop(self.shape, _copy_chunks(self),
                           self.device_mapping, 1, 2),
              LAMBDA chunks :
                  _DistributedArray(self.shape, self.dtype, chunks.chunks,
                                    self.device_mapping, SUM))

to_replica_mode(self) ==
    IF self.mode = REPLICA THEN self
    ELSE Bind(_all_reduce_intersections(
                  "add", [scalar |-> 0], self.shape,
                  _copy_chunks(self), self.device_mapping),
              LAMBDA chunks :
                  _DistributedArray(self.shape, self.dtype, chunks.chunks,
                                    self.device_mapping, REPLICA))

(* self as to_sum_mode leaves it: the loops write to the chunks of         *)
(* _copy_chunks only.                                                      *)
to_sum_mode_self(self) ==
    IF self.mode = SUM THEN self
    ELSE With(_to_sum_loop(self.shape, _copy_chunks(self),
                           self.device_mapping, 1, 2),
              LAMBDA r : IF IsErr(r) THEN self
                         ELSE _self_written(self, r.chunks))

(* self as to_replica_mode leaves it. *)
to_replica_mode_self(self) ==
    IF self.mode = REPLICA THEN self
    ELSE With(_all_reduce_intersections(
                  "add", [scalar |-> 0], self.shape,
                  _copy_chunks(self), self.device_mapping),
              LAMBDA r : IF IsErr(r) THEN self
                         ELSE _self_written(self, r.chunks))

(* self as reshard leaves it: after to_replica_mode the only buffers       *)
(* written are those cupy.empty returned.                                  *)
reshard_self(self) == to_replica_mode_self(self)

(* The inner loop of reshard over old_mapping, from entry k on: the       *)
(* destination buffer after every source chunk has been forwarded.         *)
RECURSIVE _reshard_fill(_, _, _, _, _)
_reshard_fill(arr, old_mapping, dst_array, dst_idx, k) ==
    IF k > Len(old_mapping) THEN dst_array
    ELSE IF ~DictHas(arr.chunks, old_mapping[k].key) THEN Raise("KeyError")
    ELSE Bind(_send_intersection(
                  arr.shape, DictGet(arr.chunks, old_mapping[k].key),
                  old_mapping[k].val, dst_array, dst_idx),
              LAMBDA r :
                  _reshard_fill(arr, old_mapping, r, dst_idx, k + 1))

(* The dict comprehension {dev: _convert_chunk_idx_to_slices(shape, idx)}  *)
(* over the caller's device_mapping: the converted items, in order.        *)
_convert_mapping(shape, device_mapping) ==
    Stored([k \in 1 .. Len(device_mapping) |->
        _convert_chunk_idx_to_slices(shape, device_mapping[k].val)])

(* device_mapping is the caller's dict of device -> tuple of index items;  *)
(* fill stands for the contents of the buffers cupy.empty(dst_shape)       *)
(* returns, which are float64 whatever the array's dtype.                  *)
reshard(self, device_mapping, fill) ==
    Bind(to_replica_mode(self), LAMBDA arr :
    BindAll(_convert_mapping(arr.shape, device_mapping), LAMBDA converted :
    With(Stored([k \in 1 .. Len(device_mapping) |->
             Item(device_mapping[k].key, converted[k].idx)]),
         LAMBDA new_mapping :
    BindAll(Stored([k \in 1 .. Len(new_mapping) |->
                _reshard_fill(
                    arr, arr.device_mapping,
                    empty(_shape_after_indexing(arr.shape,
                                                new_mapping[k].val),
                          "float64", new_mapping[k].key, fill),
                    new_mapping[k].val, 1)]),
            LAMBDA filled :
    _DistributedArray(
        arr.shape, arr.dtype,
        Stored([k \in 1 .. Len(new_mapping) |->
            Item(new_mapping[k].key, filled[k])]),
        new_mapping, REPLICA)))))

(* The body of the loop of asnumpy: np_array after the statement of the    *)
(* array's mode, chunk being cupy.asnumpy(self._chunks[dev]).              *)
_asnumpy_item(mode, np_array, chunk_idx, chunk) ==
    IF mode = REPLICA THEN SetItem(np_array, chunk_idx, chunk)
    ELSE Bind(GetItem(np_array, chunk_idx), LAMBDA view :
         Bind(Elementwise2("add", view, chunk, "host"), LAMBDA summed :
         IF ~can_cast(summed.dtype, np_array.dtype)
         THEN Raise("TypeError")
         ELSE SetItem(np_array, chunk_idx, summed)))

(* The loop of asnumpy over _device_mapping, from entry k on. *)
RECURSIVE _asnumpy_loop(_, _, _)
_asnumpy_loop(self, np_array, k) ==
    IF k > Len(self.device_mapping) THEN np_array
    ELSE IF ~DictHas(self.chunks, self.device_mapping[k].key)
    THEN Raise("KeyError")
    ELSE Bind(_asnumpy_item(
                  self.mode, np_array, self.device_mapping[k].val,
                  copy(DictGet(self.chunks, self.device_mapping[k].key),
                       "host")),
              LAMBDA r : _asnumpy_loop(self, r, k + 1))

(* fill stands for the contents of numpy.empty(self.shape); both buffers   *)
(* are float64.                                                            *)
asnumpy(self, fill) ==
    _asnumpy_loop(self,
                  IF self.mode = REPLICA
                  THEN empty(self.shape, "float64", "host", fill)
                  ELSE empty(self.shape, "float64", "host", 0),
                  1)

(* The loop of distributed_array over device_mapping, from entry k on:     *)
(* st holds the (working) array and cp_chunks.                             *)
RECURSIVE _factory_loop(_, _, _, _)
_factory_loop(st, device_mapping, mode, k) ==
    IF k > Len(device_mapping) THEN st
    ELSE Bind(GetItem(st.array, device_mapping[k].val), LAMBDA chunk :
         Bind(IF mode = SUM
              THEN SetItem(st.array, device_mapping[k].val, [scalar |-> 0])
              ELSE st.array,
              LAMBDA zeroed :
         _factory_loop(
             [array |-> zeroed,
              cp_chunks |-> Append(st.cp_chunks,
                  Item(device_mapping[k].key,
                       copy(chunk, device_mapping[k].key)))],
             device_mapping, mode, k + 1)))

(* array is a numpy.ndarray of the caller.  Returns the new array and the  *)
(* caller's array as the call leaves it: [result, array], or the exception.*)
distributed_array(array, device_mapping, mode) ==
    BindAll(_convert_mapping(array.shape, device_mapping), LAMBDA converted :
    With(Stored([k \in 1 .. Len(device_mapping) |->
             Item(device_mapping[k].key, converted[k].idx)]),
         LAMBDA new_mapping :
    Bind(_factory_loop(
             [array |-> IF mode = SUM THEN copy(array, "host") ELSE array,
              cp_chunks |-> <<>>],
             new_mapping, mode, 1),
         LAMBDA st :
    [result |-> _DistributedArray(array.shape, array.dtype,
                                  st.cp_chunks, new_mapping, mode),
     array |-> IF mode = SUM THEN array ELSE st.array])))

-----------------------------------------------------------------------------
(* Kernels. *)

IsDistributed(x) == "device_mapping" \in DOMAIN x

IsNdarray(x) == "v" \in DOMAIN x

(* kernel(x, y, out=out): the result r is cast into the buffer `out`,      *)
(* which the kernel returns.                                               *)
KernelInto(r, out) ==
    IF r.shape # out.shape THEN Raise("ValueError")
    ELSE IF ~can_cast(r.dtype, out.dtype) THEN Raise("TypeError")
    ELSE NdArray(out.shape, out.dtype, out.device,
                 [c \in DOMAIN r.v |-> astype(r.v[c], out.dtype)])

(* A kernel of two outputs, ElementwiseKernel('T x, T y', 'T s, T p',      *)
(* 's = x + y; p = x * y'): it returns the tuple of its outputs.           *)
KernelPair(x, y, device) ==
    Bind(Elementwise2("add", x, y, device), LAMBDA s :
        [tuple |-> <<s, Elementwise2("multiply", x, y, device)>>])

(* An element-wise kernel called on per-device operands: the binary        *)
(* kernels "add" and "multiply" take two positional arrays and, if given,  *)
(* the array `out` to write the result into; "add_multiply" is the kernel  *)
(* of two outputs.                                                         *)
KernelCall(kernel, args, kwargs, device) ==
    IF ~(Len(args) = 2 /\ IsNdarray(args[1]) /\ IsNdarray(args[2]))
    THEN Raise("TypeError")
    ELSE IF kernel = "add_multiply"
    THEN IF Len(kwargs) = 0 THEN KernelPair(args[1], args[2], device)
         ELSE Raise("TypeError")
    ELSE IF Len(kwargs) = 0
    THEN Elementwise2(kernel, args[1], args[2], device)
    ELSE IF Len(kwargs) = 1 /\ kwargs[1].key = "out"
            /\ IsNdarray(kwargs[1].val)
    THEN Bind(Elementwise2(kernel, args[1], args[2], device),
              LAMBDA r : KernelInto(r, kwargs[1].val))
    ELSE Raise("TypeError")

(* s[sl] for a tuple s and a slice sl of step 1. *)
TupleSlice(s, sl) ==
    With(indices(sl, Len(s)), LAMBDA t :
        Stored([i \in 1 .. Max(t.stop - t.start, 0) |-> s[t.start + i]]))

RECURSIVE FoldRange(_, _, _)
FoldRange(f, g(_), n) ==
    IF n = 1 THEN g(0) ELSE Apply2(f, FoldRange(f, g, n - 1), g(n - 1))

(* The coordinate of a that position k along axis ax has in the cell c of  *)
(* the reduced array.                                                      *)
ReducedFrom(c, ax, k) ==
    [i \in 1 .. Len(c) + 1 |->
        IF i <= ax THEN c[i] ELSE IF i = ax + 1 THEN k ELSE c[i - 1]]

(* The reduction over the axis ax, 0 <= ax < ndim, into the shape rshape. *)
ReductionOver(f, a, ax, rshape, dtype, device) ==
    NdArray(rshape, dtype, device,
            [c \in Coords(rshape) |->
                FoldRange(f, LAMBDA k : a.v[ReducedFrom(c, ax, k)],
                          a.shape[ax + 1])])

(* A reduction kernel (cupy_sum, cupy_max) over one axis of an ndarray;    *)
(* dtype NoneVal keeps the array's dtype.                                  *)
ReductionCall(kernel, a, axis, dtype, device) ==
    With(IF axis < 0 THEN axis + Len(a.shape) ELSE axis, LAMBDA ax :
        IF ax < 0 \/ ax >= Len(a.shape) THEN Raise("AxisError")
        ELSE ReductionOver(
                 IF kernel = "cupy_sum" THEN "add" ELSE "maximum",
                 a, ax,
                 Stored([i \in 1 .. Len(a.shape) - 1 |->
                     IF i <= ax THEN a.shape[i] ELSE a.shape[i + 1]]),
                 IF IsNone(dtype) THEN a.dtype ELSE dtype.dtype,
                 device))

(* The devices of a set in the order Python iterates it: small             *)
(* non-negative integers come out ascending.                               *)
RECURSIVE SetOrder(_)
SetOrder(S) ==
    IF S = {} THEN <<>>
    ELSE With(CHOOSE x \in S : \A y \in S : x <= y, LAMBDA m :
             <<m>> \o SetOrder(S \ {m}))

_get_execution_devices(dist_args) ==
    UNION {{dist_args[n].arg.chunks[k].key :
                k \in 1 .. Len(dist_args[n].arg.chunks)} :
              n \in 1 .. Len(dist_args)}

(* The operands whose arg._get_chunk(device) raises a KeyError. *)
_prepare_missing(dist_args, device) ==
    {n \in 1 .. Len(dist_args) : ~DictHas(dist_args[n].arg.chunks, device)}

(* The operands whose chunk has another shape than the first one's. *)
_prepare_differ(dist_args, device, missing) ==
    {n \in 1 .. Len(dist_args) :
        /\ \A m \in 1 .. n : m \notin missing
        /\ DictGet(dist_args[n].arg.chunks, device).shape
               # DictGet(dist_args[1].arg.chunks, device).shape}

(* The loop of _prepare_args raises at the first operand in either set. *)
_prepare_checked(dist_args, regular_args, device, missing, differ) ==
    IF missing # {}
       /\ (differ = {} \/ \E n \in missing : \A m \in differ : n < m)
    THEN Raise("KeyError")
    ELSE IF differ # {} THEN Raise("RuntimeError")
    ELSE IF Len(regular_args) > 0 THEN Raise("RuntimeError")
    ELSE [args |-> Stored([n \in 1 .. Len(dist_args) |->
             [i |-> dist_args[n].i,
              arg |-> DictGet(dist_args[n].arg.chunks, device)]])]

_prepare_args(dist_args, regular_args, device) ==
    With(_prepare_missing(dist_args, device), LAMBDA missing :
        _prepare_checked(dist_args, regular_args, device, missing,
                         _prepare_differ(dist_args, device, missing)))

(* Whether array_args has an entry for the operand i, and its chunk. *)
IsPrepared(array_args, i) ==
    \E n \in 1 .. Len(array_args) : array_args[n].i = i

Prepared(array_args, i) ==
    array_args[CHOOSE n \in 1 .. Len(array_args) : array_args[n].i = i].arg

(* The exception of lines 280-281. *)
NotSingleArray ==
    [err |-> "RuntimeError",
     msg |-> "kernels returning other than single array not supported"]

(* What the loop over the devices has done so far: dev_outs, and the       *)
(* kernel invocations made, each with the operands it passed in place of   *)
(* the distributed arrays and the mode of the array each was taken from.   *)
_execute_state(dev_outs, calls) == [outs |-> dev_outs, calls |-> calls]

(* The exception e leaves the loop in the state st. *)
_execute_raised(e, st) == [err |-> e.err, outs |-> st.outs, calls |-> st.calls]

_kernel_invocation(device, array_args, distributed_arrays) ==
    [device |-> device,
     operands |-> Stored([n \in 1 .. Len(array_args) |->
         [i |-> array_args[n].i,
          mode |-> distributed_arrays[n].arg.mode,
          data |-> array_args[n].arg]])]

(* The loop of _execute_kernel over the devices, from the k-th on. *)
RECURSIVE _execute_loop(_, _, _, _, _, _, _, _)
_execute_loop(kernel, args, kwargs, distributed_arrays, regular_arrays, devices, k, st) ==
    IF k > Len(devices) THEN st
    ELSE With(_prepare_args(distributed_arrays, regular_arrays, devices[k]),
              LAMBDA array_args :
         IF IsErr(array_args) THEN _execute_raised(array_args, st)
         ELSE
         With(_execute_state(
                  st.outs,
                  Append(st.calls,
                         _kernel_invocation(devices[k], array_args.args,
                                            distributed_arrays))),
              LAMBDA invoked :
         With(KernelCall(
                  kernel,
                  Stored([i \in 1 .. Len(args) |->
                      IF IsPrepared(array_args.args, [pos |-> i])
                      THEN Prepared(array_args.args, [pos |-> i])
                      ELSE args[i]]),
                  Stored([n \in 1 .. Len(kwargs) |->
                      IF IsPrepared(array_args.args, [kw |-> kwargs[n].key])
                      THEN Item(kwargs[n].key,
                                Prepared(array_args.args,
                                         [kw |-> kwargs[n].key]))
                      ELSE kwargs[n]]),
                  devices[k]),
              LAMBDA out :
         IF IsErr(out) THEN _execute_raised(out, invoked)
         ELSE IF ~IsNdarray(out)
         THEN _execute_raised(Raise("AttributeError"), invoked)
         ELSE _execute_loop(
                  kernel, args, kwargs, distributed_arrays, regular_arrays,
                  devices, k + 1,
                  _execute_state(Append(st.outs, Item(devices[k], out)),
                                 invoked.calls)))))

IsDistributedArg(e) == IsDistributed(e.arg)

IsRegularArg(e) == IsNdarray(e.arg)

(* The (i, arg) pairs of the positional operands, then of the keyword      *)
(* operands.                                                               *)
_operands(args, kwargs) ==
    [i \in 1 .. Len(args) |-> [i |-> [pos |-> i], arg |-> args[i]]]
        \o [n \in 1 .. Len(kwargs) |->
               [i |-> [kw |-> kwargs[n].key], arg |-> kwargs[n].val]]

(* The run were the result left in the mode of self. *)
_execute_kernel_end_in_mode(self, r) ==
    [out |-> IF IsErr(r) THEN Raise(r.err)
             ELSE IF \E k \in 1 .. Len(r.outs) : ~IsNdarray(r.outs[k].val)
             THEN NotSingleArray
             ELSE _DistributedArray(
                      self.shape,
                      IF Len(r.outs) = 0 THEN "float64"
                      ELSE r.outs[Len(r.outs)].val.dtype,
                      r.outs, self.device_mapping, self.mode),
     calls |-> r.calls,
     written |-> r.outs]

(* The run of _execute_kernel: what it returns or raises (out), the kernel *)
(* invocations it made (calls) and the buffers the kernel returned         *)
(* (written).  args is the tuple of positional operands, kwargs the dict   *)
(* of keyword operands.  Positional distributed operands are converted to  *)
(* REPLICA; keyword operands are taken as they are.                        *)
_execute_kernel_end(self, r) ==
    [out |-> IF IsErr(r) THEN Raise(r.err)
             ELSE IF \E k \in 1 .. Len(r.outs) : ~IsNdarray(r.outs[k].val)
             THEN NotSingleArray
             ELSE _DistributedArray(
                      self.shape,
                      IF Len(r.outs) = 0 THEN "float64"
                      ELSE r.outs[Len(r.outs)].val.dtype,
                      r.outs, self.device_mapping, REPLICA),
     calls |-> r.calls,
     written |-> r.outs]

_execute_kernel_run(self, kernel, args, kwargs) ==
    With(Stored([i \in 1 .. Len(args) |->
             IF IsDistributed(args[i])
             THEN to_replica_mode(args[i]) ELSE args[i]]),
         LAMBDA converted :
    IF \E i \in 1 .. Len(converted) : IsErr(converted[i])
    THEN _execute_kernel_end(
             self,
             _execute_raised(
                 converted[CHOOSE i \in 1 .. Len(converted) :
                     /\ IsErr(converted[i])
                     /\ \A m \in 1 .. i - 1 : ~IsErr(converted[m])],
                 _execute_state(<<>>, <<>>)))
    ELSE
    With(SelectSeq(_operands(converted, kwargs), IsDistributedArg),
         LAMBDA distributed_arrays :
    _execute_kernel_end(
        self,
        _execute_loop(
            kernel, converted, kwargs, distributed_arrays,
            SelectSeq(_operands(converted, kwargs), IsRegularArg),
            SetOrder(_get_execution_devices(distributed_arrays)), 1,
            _execute_state(<<>>, <<>>)))))

_execute_kernel(self, kernel, args, kwargs) ==
    _execute_kernel_run(self, kernel, args, kwargs).out

cupy_override_elementwise_kernel(self, kernel, args, kwargs) ==
    _execute_kernel(self, kernel, args, kwargs)

(* The loop of the reduction hook over arr._chunks, from entry k on. *)
RECURSIVE _reduction_loop(_, _, _, _, _, _)
_reduction_loop(arr, kernel, axis, dtype, k, st) ==
    IF k > Len(arr.chunks) THEN st
    ELSE IF ~DictHas(arr.device_mapping, arr.chunks[k].key)
    THEN Raise("KeyError")
    ELSE With(DictGet(arr.device_mapping, arr.chunks[k].key), LAMBDA idx :
         Bind(ReductionCall(kernel, arr.chunks[k].val, axis, dtype,
                            arr.chunks[k].key),
              LAMBDA reduced :
         _reduction_loop(
             arr, kernel, axis, dtype, k + 1,
             [chunks |-> Append(st.chunks,
                                Item(arr.chunks[k].key, reduced)),
              device_mapping |->
                  Append(st.device_mapping,
                         Item(arr.chunks[k].key,
                              TupleSlice(idx, [stop |-> axis])
                              \o TupleSlice(idx, [start |-> axis + 1])))])))

(* dtype is NoneVal or [dtype |-> d]; out is NoneVal or an array. *)
cupy_override_reduction_kernel(self, kernel, axis, dtype, out, keepdims) ==
    IF ~IsNone(out) THEN Raise("RuntimeError")
    ELSE IF keepdims THEN Raise("RuntimeError")
    ELSE IF kernel \notin {"cupy_max", "cupy_sum"} THEN Raise("RuntimeError")
    ELSE
    Bind(IF kernel = "cupy_sum" THEN to_sum_mode(self)
         ELSE to_replica_mode(self),
         LAMBDA arr :
    With(TupleSlice(arr.shape, [stop |-> axis])
             \o TupleSlice(arr.shape, [start |-> axis + 1]),
         LAMBDA shape :
    Bind(_reduction_loop(arr, kernel, axis, dtype, 1,
                         [chunks |-> <<>>, device_mapping |-> <<>>]),
         LAMBDA st :
    With(IF IsNone(dtype) THEN "float64" ELSE dtype.dtype,
         LAMBDA declared :
    IF kernel = "cupy_sum"
    THEN _DistributedArray(shape, declared, st.chunks,
                           st.device_mapping, SUM)
    ELSE Bind(_all_reduce_intersections(
                  "maximum", NoneVal, shape, st.chunks, st.device_mapping),
              LAMBDA reduced :
         _DistributedArray(shape, declared, reduced.chunks,
                           st.device_mapping, REPLICA))))))

-----------------------------------------------------------------------------
(* The inputs the operations are called with. *)

(* What an uninitialized cell may hold. *)
Values == 0 .. MaxVal

Devices == Range(MaxDevs)

(* The slices slice(a, b, c) a caller writes for an axis of length n. *)
Slices(n, steps) ==
    {Slice(a, b, c) : a \in Range(n), b \in 1 .. n, c \in steps}

ChunkSlices(n, steps) == {s \in Slices(n, steps) : s.start < s.stop}

DTypes == {"int64", "float64", "complex128"}

(* The host buffers of shape (n,) and the given dtypes that hold the       *)
(* distinct non-zero numbers b, b + 1, ... (b + bj, ... if complex).       *)
HostBuffers(n, dtypes) ==
    {NdArray(<<n>>, dtype, "host",
             [c \in Coords(<<n>>) |->
                 Num(b + c[1], IF dtype = "complex128" THEN b + c[1] ELSE 0)]) :
        b \in 1 .. MaxVal, dtype \in dtypes}

(* The device mappings {0: s0, 1: s1, ...} over one axis with at most K    *)
(* entries, each a slice of S.                                             *)
MappingsOn(K, S) ==
    UNION {{[k \in 1 .. m |-> Item(k - 1, <<f[k]>>)] : f \in [1 .. m -> S]} :
              m \in 1 .. Min(K, MaxDevs)}

(* The global coordinates a normalized chunk index selects. *)
CoordsOf(shape, idx) ==
    {c \in Coords(shape) :
        \A i \in 1 .. Len(shape) :
            LET t == indices(idx[i], shape[i])
            IN  /\ c[i] >= t.start
                /\ c[i] < t.stop
                /\ (c[i] - t.start) % t.step = 0}

(* Whether the chunk indices of a mapping cover the shape. *)
Covers(shape, device_mapping) ==
    \A c \in Coords(shape) :
        \E k \in 1 .. Len(device_mapping) :
            c \in CoordsOf(shape, device_mapping[k].val)

Hosts == HostBuffers(MaxLen, {"int64", "complex128"})

(* Up to MaxDevs shards of any stride. *)
AllMappings == MappingsOn(MaxDevs, ChunkSlices(MaxLen, 1 .. MaxStep))

CoveringMappings == {M \in AllMappings : Covers(<<MaxLen>>, M)}

(* Up to MaxPair shards of any stride. *)
MaxPair == 2

PairMappings == MappingsOn(MaxPair, ChunkSlices(MaxLen, 1 .. MaxStep))

CoveringPairs == {M \in PairMappings : Covers(<<MaxLen>>, M)}

(* Up to MaxPair contiguous shards. *)
UnitPairs ==
    {M \in MappingsOn(MaxPair, ChunkSlices(MaxLen, {1})) :
        Covers(<<MaxLen>>, M)}

-----------------------------------------------------------------------------
(* The state: `chain` is the sequence of calls made so far, each with what *)
(* it returned (an array, a host buffer or an exception); every call but   *)
(* the first is made on the array the call before it returned.  `host` is  *)
(* the caller's buffer handed to the factory, as the factory left it.      *)

Last == chain[Len(chain)].out

CanCall == /\ Len(chain) >= 1
           /\ Len(chain) <= MaxOps
           /\ IsDistributed(Last)

Entry(call, out) == [call |-> call, out |-> out]

Init == host = NoneVal /\ chain = <<>>

(* distributed_array(H, M, mode). *)
Create(Hs, Ms, modes) ==
    /\ chain = <<>>
    /\ \E H \in Hs, M \in Ms, mode \in modes :
          \E r \in {distributed_array(H, M, mode)} :
              /\ chain' = <<Entry([name |-> "distributed_array", array |-> H,
                                   device_mapping |-> M, mode |-> mode],
                                  IF IsErr(r) THEN r ELSE r.result)>>
              /\ host' = IF IsErr(r) THEN H ELSE r.array

(* The number cell c of the k-th shard is given by New: a power of two of  *)
(* its own, so that a sum tells which cells went into it.                  *)
Weight(k, c) == 2 ^ (MaxLen * (k - 1) + c[1])

(* The SUM array of the dtype over the mapping M whose shards hold b times *)
(* their weights (in both parts if complex).                               *)
WeightedChunk(cs, dtype, device, k, b) ==
    NdArray(cs, dtype, device,
            [c \in Coords(cs) |->
                Num(b * Weight(k, c),
                    IF dtype = "complex128" THEN b * Weight(k, c) ELSE 0)])

Weighted(shape, dtype, M, b) ==
    With(Stored([k \in 1 .. Len(M) |->
             Item(M[k].key,
                  _convert_chunk_idx_to_slices(shape, M[k].val).idx)]),
         LAMBDA device_mapping :
    _DistributedArray(
        shape, dtype,
        Stored([k \in 1 .. Len(M) |->
            Item(M[k].key,
                 WeightedChunk(
                     _shape_after_indexing(shape, device_mapping[k].val),
                     dtype, M[k].key, k, b))]),
        device_mapping, SUM))

(* _DistributedArray(shape, dtype, chunks, device_mapping, Mode.SUM) on    *)
(* shard buffers the caller filled: a SUM array with arbitrary shards.     *)
New(Ms, dtypes) ==
    /\ chain = <<>>
    /\ \E M \in Ms, dtype \in dtypes, b \in 1 .. MaxVal :
          chain' = <<Entry([name |-> "_DistributedArray",
                            device_mapping |-> M, mode |-> SUM],
                           Weighted(<<MaxLen>>, dtype, M, b))>>
    /\ UNCHANGED host

ToSumMode ==
    /\ CanCall
    /\ chain' = Append(chain, Entry([name |-> "to_sum_mode"],
                                    to_sum_mode(Last)))
    /\ UNCHANGED host

ToReplicaMode ==
    /\ CanCall
    /\ chain' = Append(chain, Entry([name |-> "to_replica_mode"],
                                    to_replica_mode(Last)))
    /\ UNCHANGED host

(* The cells of the chunks of two runs that differ only in the contents of *)
(* the uninitialized buffers: the cells no write reached.                  *)
Unwritten(r0, r1) ==
    {kc \in UNION {{<<k, c>> : c \in DOMAIN r0.chunks[k].val.v} :
                      k \in 1 .. Len(r0.chunks)} :
        r0.chunks[kc[1]].val.v[kc[2]] # r1.chunks[kc[1]].val.v[kc[2]]}

WithGarbage(r0, g) ==
    [r0 EXCEPT !.chunks =
        Stored([k \in 1 .. Len(r0.chunks) |->
            [r0.chunks[k] EXCEPT !.val.v =
                Stored([c \in DOMAIN r0.chunks[k].val.v |->
                    IF <<k, c>> \in DOMAIN g THEN Real(g[<<k, c>>])
                    ELSE r0.chunks[k].val.v[c]])]])]

(* What self.reshard(M) may return: the cells of the new buffers that no   *)
(* source chunk is forwarded to keep what cupy.empty left there, any       *)
(* value.                                                                  *)
ReshardOutcomes(self, M) ==
    With(reshard(self, M, 0), LAMBDA r0 :
        IF IsErr(r0) THEN {r0}
        ELSE {WithGarbage(r0, g) :
                 g \in [Unwritten(r0, reshard(self, M, 1)) -> Values]})

ReshardTo(M) ==
    /\ CanCall
    /\ \E out \in ReshardOutcomes(Last, M) :
          chain' = Append(chain, Entry([name |-> "reshard",
                                        device_mapping |-> M], out))
    /\ UNCHANGED host

Reshard(Ms) == \E M \in Ms : ReshardTo(M)

(* reshard back to the index map the first array of the chain was made     *)
(* with.                                                                   *)
ReshardBack ==
    /\ Len(chain) >= 2
    /\ chain[Len(chain)].call.name = "reshard"
    /\ ReshardTo(chain[1].call.device_mapping)

(* What self.asnumpy() may return: in REPLICA mode the cells of the host   *)
(* buffer that no chunk is copied to keep what numpy.empty left there, any *)
(* value.                                                                  *)
AsnumpyGarbage(r0, r1) ==
    {NdArray(r0.shape, r0.dtype, r0.device,
             [c \in DOMAIN r0.v |->
                 IF c \in DOMAIN g THEN Real(g[c]) ELSE r0.v[c]]) :
        g \in [{c \in DOMAIN r0.v : r0.v[c] # r1.v[c]} -> Values]}

AsnumpyOutcomes(self) ==
    With(asnumpy(self, 0), LAMBDA r0 :
        IF IsErr(r0) THEN {r0} ELSE AsnumpyGarbage(r0, asnumpy(self, 1)))

Asnumpy ==
    /\ CanCall
    /\ \E out \in AsnumpyOutcomes(Last) :
          chain' = Append(chain, Entry([name |-> "asnumpy"], out))
    /\ UNCHANGED host

(* kernel(x, y) for an element-wise kernel, x the latest array and y an    *)
(* array an earlier call returned (or x itself): cupy hands the call to    *)
(* the hook of the first distributed operand.                              *)
Elementwise ==
    /\ CanCall
    /\ \E kernel \in {"add", "multiply"}, j \in 1 .. Len(chain) :
          /\ IsDistributed(chain[j].out)
          /\ chain' = Append(chain,
                 Entry([name |-> "elementwise", kernel |-> kernel,
                        other |-> j],
                       cupy_override_elementwise_kernel(
                           Last, kernel, <<Last, chain[j].out>>, <<>>)))
    /\ UNCHANGED host

(* x.sum(axis) and x.max(axis): cupy hands the call to the hook with the   *)
(* axis as the caller wrote it.                                            *)
Reduction ==
    /\ CanCall
    /\ \E kernel \in {"cupy_sum", "cupy_max"}, axis \in {0, -1} :
          chain' = Append(chain,
              Entry([name |-> "reduction", kernel |-> kernel, axis |-> axis],
                    cupy_override_reduction_kernel(
                        Last, kernel, axis, NoneVal, NoneVal, FALSE)))
    /\ UNCHANGED host

-----------------------------------------------------------------------------
(* The factory and materialization. *)

NextFactory ==
    \/ Create(Hosts, CoveringMappings, {REPLICA, SUM})
    \/ Asnumpy

SpecFactory == Init /\ [][NextFactory]_vars

(* Mode conversions of factory-made arrays and of SUM arrays with          *)
(* arbitrary shards.                                                       *)
NextConvert ==
    \/ Create(Hosts, CoveringMappings, {REPLICA, SUM})
    \/ New(AllMappings, {"int64", "complex128"})
    \/ ToSumMode
    \/ ToReplicaMode

SpecConvert == Init /\ [][NextConvert]_vars

(* Resharding a factory-made array, to any index map and back. *)
NextReshard ==
    \/ Create(Hosts, CoveringPairs, {REPLICA, SUM})
    \/ Len(chain) = 1 /\ Reshard(PairMappings)
    \/ CanCall /\ Covers(Last.shape, Last.device_mapping) /\ ReshardBack

SpecReshard == Init /\ [][NextReshard]_vars

(* Every operation, on arrays of contiguous shards. *)
Next ==
    \/ Create(Hosts, UnitPairs, {REPLICA, SUM})
    \/ ToSumMode
    \/ ToReplicaMode
    \/ Reshard(UnitPairs)
    \/ Elementwise
    \/ Reduction
    \/ Asnumpy

Spec == Init /\ [][Next]_vars

-----------------------------------------------------------------------------
(* What the properties speak of. *)

(* The position in a shard with chunk index idx of global coordinate c. *)
LocalCoord(shape, idx, c) ==
    [i \in 1 .. Len(c) |->
        LET t == indices(idx[i], shape[i])
        IN  (c[i] - t.start) \div t.step]

(* The shards of x, by their place in the index map. *)
Shards(x) == 1 .. Len(x.device_mapping)

ShardCoords(x, k) == CoordsOf(x.shape, x.device_mapping[k].val)

(* The number shard k of x holds for global coordinate c. *)
ShardValue(x, k, c) ==
    DictGet(x.chunks, x.device_mapping[k].key).v[
        LocalCoord(x.shape, x.device_mapping[k].val, c)]

(* The shards of x that cover global coordinate c. *)
Covering(x, c) == {k \in Shards(x) : c \in ShardCoords(x, k)}

(* An ndarray that holds the numbers of the ndarray a. *)
SameNumbers(np, a) ==
    /\ IsNdarray(np)
    /\ np.shape = a.shape
    /\ \A c \in Coords(a.shape) : np.v[c] = a.v[c]

Strided(x) ==
    \E k \in Shards(x) : indices(x.device_mapping[k].val[1], x.shape[1]).step > 1

-----------------------------------------------------------------------------
(* Properties of the factory and materialization (under SpecFactory). *)

(* C1. For every host buffer H and covering index map M, asnumpy() of      *)
(* distributed_array(H, M, REPLICA) holds H's number at every coordinate.  *)
C1_MaterializeReplica ==
    (/\ Len(chain) = 2
     /\ chain[1].call.mode = REPLICA
     /\ chain[2].call.name = "asnumpy")
        => SameNumbers(chain[2].out, chain[1].call.array)

(* C5. For every host buffer H and covering index map M, in                *)
(* distributed_array(H, M, SUM) the first shard (in index-map order) that  *)
(* covers a coordinate holds H's number there and every other covering     *)
(* shard holds 0, and asnumpy() of the array holds H's numbers.            *)
C5_FactorySumPartition ==
    (Len(chain) >= 1 /\ chain[1].call.mode = SUM)
        => LET X == chain[1].out
               H == chain[1].call.array
           IN  /\ IsDistributed(X)
               /\ \A c \in Coords(H.shape) :
                     \A k \in Covering(X, c) :
                         ShardValue(X, k, c) =
                             IF \A m \in Covering(X, c) : k <= m
                             THEN H.v[c] ELSE Real(0)
               /\ (Len(chain) = 2 /\ chain[2].call.name = "asnumpy")
                      => SameNumbers(chain[2].out, H)

-----------------------------------------------------------------------------
(* Properties of the mode conversions (under SpecConvert). *)

(* The sum of the numbers the shards of S hold for global coordinate c. *)
RECURSIVE ShardSum(_, _, _)
ShardSum(x, S, c) ==
    IF S = {} THEN Real(0)
    ELSE LET k == CHOOSE m \in S : TRUE
         IN  Apply2("add", ShardValue(x, k, c), ShardSum(x, S \ {k}, c))

(* Two shards that overlap without one holding all of the other. *)
PartlyOverlapping(x) ==
    \E k, m \in Shards(x) :
        /\ ShardCoords(x, k) \cap ShardCoords(x, m) # {}
        /\ ShardCoords(x, k) \ ShardCoords(x, m) # {}
        /\ ShardCoords(x, m) \ ShardCoords(x, k) # {}

(* A coordinate that three shards cover. *)
TriplyCovered(x) ==
    \E c \in Coords(x.shape) : Cardinality(Covering(x, c)) >= 3

(* Calls i .. i + 1 of the chain are to_sum_mode then to_replica_mode, on  *)
(* a REPLICA array.                                                        *)
SumThenReplica(i) ==
    /\ i >= 1
    /\ Len(chain) >= i + 2
    /\ IsDistributed(chain[i].out)
    /\ chain[i].out.mode = REPLICA
    /\ chain[i + 1].call.name = "to_sum_mode"
    /\ chain[i + 2].call.name = "to_replica_mode"

(* C2. For every REPLICA array X the factory makes,                        *)
(* to_replica_mode(to_sum_mode(X)) is a REPLICA array over X's index map   *)
(* whose every shard holds, at every coordinate of its index, the number   *)
(* X held there, and that materializes as X does.                          *)
C2_SumReplicaRoundTrip ==
    SumThenReplica(1)
        => LET X == chain[1].out
               R == chain[3].out
           IN  /\ IsDistributed(R)
               /\ R.mode = REPLICA
               /\ R.shape = X.shape
               /\ R.device_mapping = X.device_mapping
               /\ \A k \in Shards(X) : \A c \in ShardCoords(X, k) :
                     ShardValue(R, k, c) = ShardValue(X, k, c)
               /\ AsnumpyOutcomes(R) = AsnumpyOutcomes(X)

(* A round trip of an array with strides, a partial overlap and a          *)
(* coordinate three shards cover, in which to_sum_mode zeroed something.   *)
C2_Witness ==
    /\ SumThenReplica(1)
    /\ Strided(chain[1].out)
    /\ PartlyOverlapping(chain[1].out)
    /\ TriplyCovered(chain[1].out)
    /\ chain[2].out.chunks # chain[1].out.chunks
    /\ chain[3].out.chunks = chain[1].out.chunks

(* C3. For every SUM array X with arbitrary shards, to_replica_mode(X) is  *)
(* a REPLICA array whose every shard holds, at each coordinate of its      *)
(* index, the sum over all shards of X covering the coordinate of the      *)
(* numbers they held, and it materializes as X does.                       *)
C3_ReplicaHoldsSums ==
    (/\ Len(chain) >= 2
     /\ chain[1].call.name = "_DistributedArray"
     /\ chain[2].call.name = "to_replica_mode")
        => LET X == chain[1].out
               R == chain[2].out
           IN  /\ IsDistributed(R)
               /\ R.mode = REPLICA
               /\ \A k \in Shards(X) : \A c \in ShardCoords(X, k) :
                     ShardValue(R, k, c) = ShardSum(X, Covering(X, c), c)
               /\ \A np \in AsnumpyOutcomes(R) : IsNdarray(np)
               /\ AsnumpyOutcomes(R) = AsnumpyOutcomes(X)

(* C6. to_sum_mode on a SUM array and to_replica_mode on a REPLICA array   *)
(* return the array they are called on.                                    *)
C6_ConversionToOwnMode ==
    \A i \in 2 .. Len(chain) :
        (/\ IsDistributed(chain[i - 1].out)
         /\ \/ /\ chain[i].call.name = "to_sum_mode"
               /\ chain[i - 1].out.mode = SUM
            \/ /\ chain[i].call.name = "to_replica_mode"
               /\ chain[i - 1].out.mode = REPLICA)
            => chain[i].out = chain[i - 1].out

(* Both conversions called on an array already in their mode, one of them  *)
(* a second time in a row.                                                 *)
C6_Witness ==
    /\ Len(chain) = 3
    /\ chain[2].call.name = chain[3].call.name
    /\ chain[2].out # chain[1].out
    /\ chain[3].out = chain[2].out
    /\ Len(chain[1].out.chunks) >= 2

-----------------------------------------------------------------------------
(* Properties of reshard (under SpecReshard). *)

(* The index map a caller's mapping M denotes on the shape. *)
Normalized(shape, M) ==
    [k \in 1 .. Len(M) |->
        Item(M[k].key, _convert_chunk_idx_to_slices(shape, M[k].val).idx)]

(* Call i of the chain is reshard, on an array. *)
Resharded(i) ==
    /\ i >= 2
    /\ Len(chain) >= i
    /\ chain[i].call.name = "reshard"
    /\ IsDistributed(chain[i - 1].out)

(* C7. For every array X (REPLICA or SUM) and covering index map M,        *)
(* reshard(M) returns a REPLICA array over the normalized M that           *)
(* materializes as X does; and resharding that array once more, to the     *)
(* index map X was made with, gives an array that materializes to the      *)
(* host buffer X was made from.                                            *)
C7_ReshardKeepsValue ==
    \A i \in 2 .. Len(chain) :
        (Resharded(i)
         /\ Covers(chain[i - 1].out.shape, chain[i].call.device_mapping))
            => LET X == chain[i - 1].out
                   R == chain[i].out
               IN  /\ IsDistributed(R)
                   /\ R.mode = REPLICA
                   /\ R.device_mapping =
                          Normalized(X.shape, chain[i].call.device_mapping)
                   /\ \A np \in AsnumpyOutcomes(R) : IsNdarray(np)
                   /\ AsnumpyOutcomes(R) = AsnumpyOutcomes(X)
                   /\ i = 3 => \A np \in AsnumpyOutcomes(R) :
                                   SameNumbers(np, chain[1].call.array)

(* C8. reshard with an index map that does not cover the shape raises a    *)
(* coverage error and returns no array.                                    *)
C8_ReshardNeedsCover ==
    \A i \in 2 .. Len(chain) :
        (Resharded(i)
         /\ ~Covers(chain[i - 1].out.shape, chain[i].call.device_mapping))
            => chain[i].out = Raise("CoverageError")

-----------------------------------------------------------------------------
(* Properties of every operation (under Spec). *)

(* Call i of the chain is one of the derivations, and returned an array. *)
Derived(i) ==
    /\ i >= 2
    /\ Len(chain) >= i
    /\ chain[i].call.name \in {"to_sum_mode", "to_replica_mode", "reshard"}
    /\ IsDistributed(chain[i - 1].out)
    /\ IsDistributed(chain[i].out)

(* C9. Every array to_sum_mode, to_replica_mode or reshard returns has the *)
(* shape and the declared dtype of its source, and every shard buffer it   *)
(* holds has the array's declared dtype.                                   *)
C9_DerivationKeepsDtype ==
    \A i \in 2 .. Len(chain) :
        Derived(i)
            => LET X == chain[i - 1].out
                   R == chain[i].out
               IN  /\ R.shape = X.shape
                   /\ R.dtype = X.dtype
                   /\ \A k \in 1 .. Len(R.chunks) :
                         R.chunks[k].val.dtype = R.dtype

(* Whether shard k of x has a cell for global coordinate c. *)
ShardHolds(x, k, c) ==
    /\ DictHas(x.chunks, x.device_mapping[k].key)
    /\ LocalCoord(x.shape, x.device_mapping[k].val, c)
           \in DOMAIN DictGet(x.chunks, x.device_mapping[k].key).v

(* C4. Every REPLICA array any sequence of the operations returns holds    *)
(* equal numbers in every pair of shards at every coordinate they share.   *)
C4_ReplicaShardsAgree ==
    \A i \in 1 .. Len(chain) :
        (IsDistributed(chain[i].out) /\ chain[i].out.mode = REPLICA)
            => LET X == chain[i].out
               IN  \A k, m \in Shards(X) :
                       \A c \in ShardCoords(X, k) \cap ShardCoords(X, m) :
                           (ShardHolds(X, k, c) /\ ShardHolds(X, m, c))
                               => ShardValue(X, k, c) = ShardValue(X, m, c)

(* C10. Every array any sequence of the operations returns has one chunk   *)
(* per index-map entry, on the same devices, and each chunk's data has the *)
(* shape its chunk index implies.                                          *)
C10_ChunksMatchIndexMap ==
    \A i \in 1 .. Len(chain) :
        IsDistributed(chain[i].out)
            => LET X == chain[i].out
               IN  /\ Len(X.chunks) = Len(X.device_mapping)
                   /\ {X.chunks[k].key : k \in 1 .. Len(X.chunks)}
                          = {X.device_mapping[k].key : k \in Shards(X)}
                   /\ Cardinality({X.chunks[k].key : k \in 1 .. Len(X.chunks)})
                          = Len(X.chunks)
                   /\ \A k \in Shards(X) :
                         /\ Len(X.device_mapping[k].val) = Len(X.shape)
                         /\ DictGet(X.chunks, X.device_mapping[k].key).shape
                                = _shape_after_indexing(
                                      X.shape, X.device_mapping[k].val)

-----------------------------------------------------------------------------
(* The index algebra on its own: each function is called once, on          *)
(* arguments drawn from the bounded sets below.                            *)

MaxAxis == 7

MaxStride == 3

(* The normalized slices of an axis of length n: 0 <= start < stop <= n    *)
(* and step >= 1.                                                          *)
NormalSlices(n) == ChunkSlices(n, 1 .. MaxStride)

(* The integers a normalized slice selects, as a set and in order. *)
Elems(s) ==
    {s.start + k * s.step :
        k \in 0 .. RangeLen(s.start, s.stop, s.step) - 1}

RangeOf(s) ==
    [k \in 1 .. RangeLen(s.start, s.stop, s.step) |->
        s.start + (k - 1) * s.step]

(* _slice_intersection(a, b, length). *)
SliceIntersection ==
    /\ chain = <<>>
    /\ \E length \in 1 .. MaxAxis :
          \E a, b \in NormalSlices(length) :
              chain' = <<Entry([name |-> "_slice_intersection", a |-> a,
                                b |-> b, length |-> length],
                               _slice_intersection(a, b, length))>>
    /\ UNCHANGED host

(* The chunk indices over a shape: one normalized slice per axis. *)
RECURSIVE ChunkIndices(_)
ChunkIndices(shape) ==
    IF Len(shape) = 0 THEN {<<>>}
    ELSE {Append(idx, s) :
             idx \in ChunkIndices(SubSeq(shape, 1, Len(shape) - 1)),
             s \in ChunkSlices(shape[Len(shape)], 1 .. MaxStep)}

(* _index_intersection(A, B, shape) and _index_intersection(B, A, shape). *)
IndexIntersection ==
    /\ chain = <<>>
    /\ \E shape \in {<<MaxLen + 1>>, <<MaxLen, MaxLen>>} :
          \E A, B \in ChunkIndices(shape) :
              chain' = <<Entry([name |-> "_index_intersection", a_idx |-> A,
                                b_idx |-> B, shape |-> shape],
                               _index_intersection(A, B, shape)),
                         Entry([name |-> "_index_intersection", a_idx |-> B,
                                b_idx |-> A, shape |-> shape],
                               _index_intersection(B, A, shape))>>
    /\ UNCHANGED host

(* _index_for_subslice(a, sub, length) for a slice sub contained in a. *)
IndexForSubslice ==
    /\ chain = <<>>
    /\ \E length \in 1 .. MaxAxis :
          \E a, sub \in NormalSlices(length) :
              /\ Elems(sub) \subseteq Elems(a)
              /\ chain' = <<Entry([name |-> "_index_for_subslice", a |-> a,
                                   sub |-> sub, length |-> length],
                                  _index_for_subslice(a, sub, length))>>
    /\ UNCHANGED host

(* What a caller may write for one axis of length n: an integer, a slice   *)
(* with any of its fields left out, or something that is neither.          *)
RawSlices(n) ==
    UNION {{[f \in D |-> IF f = "slice" THEN TRUE
                         ELSE IF f = "step" THEN c
                         ELSE IF f = "start" THEN a ELSE b] :
               a \in -1 .. n + 1, b \in -1 .. n + 1, c \in -1 .. MaxStep} :
              D \in {{"slice"} \cup F : F \in SUBSET {"start", "stop", "step"}}}

IndexItems(n) ==
    {[int |-> k] : k \in -(n + 1) .. n + 1}
        \cup {[other |-> "Ellipsis"]} \cup RawSlices(n)

(* The indices written for a shape: up to one item more than it has axes. *)
RawIndices(shape) ==
    {<<>>} \cup {<<x>> : x \in IndexItems(shape[1])}
        \cup (IF Len(shape) = 1
              THEN {<<x, FullSlice>> : x \in IndexItems(shape[1])}
              ELSE {<<x, y>> : x \in IndexItems(shape[1]),
                               y \in IndexItems(shape[2])}
                       \cup {<<FullSlice, FullSlice, FullSlice>>})

(* _convert_chunk_idx_to_slices(shape, idx). *)
ConvertChunkIdx ==
    /\ chain = <<>>
    /\ \E shape \in {<<MaxLen>>, <<MaxPair, MaxPair>>} :
          \E idx \in RawIndices(shape) :
              chain' = <<Entry([name |-> "_convert_chunk_idx_to_slices",
                                shape |-> shape, idx |-> idx],
                               _convert_chunk_idx_to_slices(shape, idx))>>
    /\ UNCHANGED host

NextIndex ==
    \/ SliceIntersection
    \/ IndexIntersection
    \/ IndexForSubslice
    \/ ConvertChunkIdx

SpecIndex == Init /\ [][NextIndex]_vars

(* Call i of the chain is a call of the named function. *)
Called(i, name) == i <= Len(chain) /\ chain[i].call.name = name

(* C11. For normalized slices a and b, _slice_intersection(a, b, length)   *)
(* selects exactly the integers of [0, length) that both a and b select,   *)
(* and it is None exactly when there is no such integer.                   *)
C11_SliceIntersectionExact ==
    \A i \in 1 .. Len(chain) :
        Called(i, "_slice_intersection")
            => LET both == Elems(chain[i].call.a) \cap Elems(chain[i].call.b)
                   c == chain[i].out
               IN  IF both = {} THEN IsNone(c)
                   ELSE /\ ~IsNone(c)
                        /\ Elems(indices(c, chain[i].call.length)) = both

(* Slices of coprime steps 2 and 3 that meet twice, on the lattice of 6. *)
C11_Witness ==
    /\ Called(1, "_slice_intersection")
    /\ chain[1].call.a.step = 2
    /\ chain[1].call.b.step = 3
    /\ ~IsNone(chain[1].out)
    /\ Cardinality(Elems(indices(chain[1].out, chain[1].call.length))) = 2

(* The least common multiple of two positive integers. *)
Lcm(m, n) ==
    CHOOSE k \in 1 .. m * n :
        /\ k % m = 0
        /\ k % n = 0
        /\ \A j \in 1 .. k - 1 : ~(j % m = 0 /\ j % n = 0)

(* Whether n lies in the progression s.start, s.start + s.step, ... *)
InProgression(s, n) == n >= s.start /\ (n - s.start) % s.step = 0

(* C12. Whenever _slice_intersection(a, b, length) returns a slice c:      *)
(* c.step is the least common multiple of a.step and b.step, c.start is    *)
(* the least integer not below max(a.start, b.start) that lies in both     *)
(* progressions, and c.stop is min(a.stop, b.stop).                        *)
C12_IntersectionFields ==
    \A i \in 1 .. Len(chain) :
        (Called(i, "_slice_intersection") /\ ~IsNone(chain[i].out))
            => LET a == chain[i].call.a
                   b == chain[i].call.b
                   c == chain[i].out
               IN  /\ c.step = Lcm(a.step, b.step)
                   /\ c.start >= Max(a.start, b.start)
                   /\ InProgression(a, c.start)
                   /\ InProgression(b, c.start)
                   /\ \A n \in Max(a.start, b.start) .. c.start - 1 :
                         ~(InProgression(a, n) /\ InProgression(b, n))
                   /\ c.stop = Min(a.stop, b.stop)

(* Slices of different steps and stops whose first common integer lies     *)
(* beyond both starts.                                                     *)
C12_Witness ==
    /\ Called(1, "_slice_intersection")
    /\ ~IsNone(chain[1].out)
    /\ chain[1].out.start > Max(chain[1].call.a.start, chain[1].call.b.start)
    /\ chain[1].call.a.stop # chain[1].call.b.stop
    /\ chain[1].call.a.step # chain[1].call.b.step

(* C13. _index_intersection(A, B, s) and _index_intersection(B, A, s) are  *)
(* equal: both None, or tuples of slices with the same start, stop and     *)
(* step on every axis.                                                     *)
C13_IndexIntersectionCommutes ==
    \A i, j \in 1 .. Len(chain) :
        (/\ Called(i, "_index_intersection")
         /\ Called(j, "_index_intersection")
         /\ chain[i].call.shape = chain[j].call.shape
         /\ chain[i].call.a_idx = chain[j].call.b_idx
         /\ chain[i].call.b_idx = chain[j].call.a_idx)
            => chain[i].out = chain[j].out

(* Two different two-dimensional chunk indices of different steps and      *)
(* stops that intersect.                                                   *)
C13_Witness ==
    /\ Called(1, "_index_intersection")
    /\ Called(2, "_index_intersection")
    /\ Len(chain[1].call.shape) = 2
    /\ chain[1].call.a_idx[1].stop # chain[1].call.b_idx[1].stop
    /\ chain[1].call.a_idx[2].step # chain[1].call.b_idx[2].step
    /\ chain[1].call.a_idx[2].start # chain[1].call.b_idx[2].start
    /\ ~IsNone(chain[1].out)
    /\ ~IsNone(chain[2].out)

(* Whether s[c] is defined for a sequence s and a slice c (a zero step is  *)
(* a ValueError), and the sequence it is.                                  *)
CanSubscript(s, c) == ~IsErr(indices(c, Len(s)))

Subscript(s, c) ==
    LET t == indices(c, Len(s))
    IN  [k \in 1 .. RangeLen(t.start, t.stop, t.step) |->
            s[t.start + (k - 1) * t.step + 1]]

(* C14. For a slice sub contained in the slice a, the elements a selects,  *)
(* indexed with _index_for_subslice(a, sub, length), are exactly the       *)
(* elements sub selects, in the same order: array[a][c] == array[sub].     *)
C14_SubsliceSelectsSub ==
    \A i \in 1 .. Len(chain) :
        Called(i, "_index_for_subslice")
            => /\ CanSubscript(RangeOf(chain[i].call.a), chain[i].out)
               /\ Subscript(RangeOf(chain[i].call.a), chain[i].out)
                      = RangeOf(chain[i].call.sub)

(* Call i converts an index and returns (raises nothing). *)
Converted(i) ==
    Called(i, "_convert_chunk_idx_to_slices") /\ ~IsErr(chain[i].out)

(* The step of a slice, 1 if it is left out. *)
StepOf(s) == IF "step" \in DOMAIN s THEN s.step ELSE 1

(* C15. Whenever _convert_chunk_idx_to_slices(shape, idx) returns, it      *)
(* returns exactly ndim slices, each with 0 <= start < stop <= dim and     *)
(* step >= 1 on its axis; an axis idx does not reach gets the full slice,  *)
(* and an integer k becomes the slice (k, k + 1) of step 1.                *)
C15_ConvertedIsNormalized ==
    \A i \in 1 .. Len(chain) :
        Converted(i)
            => LET shape == chain[i].call.shape
                   idx == chain[i].call.idx
                   new_idx == chain[i].out.idx
               IN  /\ Len(new_idx) = Len(shape)
                   /\ \A n \in 1 .. Len(shape) :
                         /\ 0 <= new_idx[n].start
                         /\ new_idx[n].start < new_idx[n].stop
                         /\ new_idx[n].stop <= shape[n]
                         /\ StepOf(new_idx[n]) >= 1
                         /\ n > Len(idx)
                                => /\ new_idx[n].start = 0
                                   /\ new_idx[n].stop = shape[n]
                                   /\ StepOf(new_idx[n]) = 1
                         /\ (n <= Len(idx) /\ "int" \in DOMAIN idx[n])
                                => /\ new_idx[n].start = idx[n].int
                                   /\ new_idx[n].stop = idx[n].int + 1
                                   /\ StepOf(new_idx[n]) = 1

(* The exception the item written for an axis of length dim calls for:     *)
(* IndexError for an integer outside [-dim, dim), ValueError for a slice   *)
(* of zero or negative step and for a slice that selects nothing.          *)
Rejection(item, dim) ==
    IF "int" \in DOMAIN item
    THEN IF item.int >= dim \/ item.int < -dim THEN {"IndexError"} ELSE {}
    ELSE IF "other" \in DOMAIN item THEN {}
    ELSE IF StepOf(item) <= 0 THEN {"ValueError"}
    ELSE IF indices(item, dim).start >= indices(item, dim).stop
    THEN {"ValueError"}
    ELSE {}

(* C16. _convert_chunk_idx_to_slices raises, and returns no index, for     *)
(* every idx with more entries than ndim (IndexError), with an integer     *)
(* outside the bounds of its axis (IndexError), with a slice of zero or    *)
(* negative step (ValueError) or with a slice that selects no element,     *)
(* start > stop included (ValueError).                                     *)
C16_ConvertRejects ==
    \A i \in 1 .. Len(chain) :
        Called(i, "_convert_chunk_idx_to_slices")
            => LET shape == chain[i].call.shape
                   idx == chain[i].call.idx
                   due == UNION {Rejection(idx[n], shape[n]) :
                                    n \in 1 .. Min(Len(idx), Len(shape))}
               IN  /\ Len(idx) > Len(shape)
                          => chain[i].out = Raise("IndexError")
                   /\ (/\ Len(idx) <= Len(shape)
                       /\ due # {}
                       /\ \A n \in 1 .. Len(idx) : "other" \notin DOMAIN idx[n])
                          => /\ IsErr(chain[i].out)
                             /\ chain[i].out.err \in due

-----------------------------------------------------------------------------
(* Element-wise kernels on factory-made arrays and their conversions,      *)
(* which all share the index map the factory was given.                    *)

(* The arrays the calls so far returned. *)
Arrays ==
    {chain[j].out : j \in {j \in 1 .. Len(chain) : IsDistributed(chain[j].out)}}

Kernels == {"add", "multiply"}

(* A kernel call handed to the hook of self: the entry holds the           *)
(* arguments, what the hook returned or raised, the kernel invocations     *)
(* it made and the buffers they returned.                                  *)
Invoke(self, kernel, args, kwargs) ==
    \E run \in {_execute_kernel_run(self, kernel, args, kwargs)} :
        chain' = Append(chain,
            [call |-> [name |-> "kernel", kernel |-> kernel,
                       args |-> args, kwargs |-> kwargs],
             out |-> run.out, calls |-> run.calls,
             written |-> run.written])

(* kernel(x, y) for the latest array x and an array y of the chain. *)
KernelOnArrays ==
    /\ CanCall
    /\ \E kernel \in Kernels, y \in Arrays :
          Invoke(Last, kernel, <<Last, y>>, <<>>)
    /\ UNCHANGED host

(* kernel(x, y, out=z) for arrays y and z of the chain, as the last call   *)
(* made: the kernel writes into the shards of z.                           *)
KernelWithOut ==
    /\ CanCall
    /\ Len(chain) = MaxOps
    /\ \E kernel \in Kernels, y \in Arrays, z \in Arrays :
          Invoke(Last, kernel, <<Last, y>>, <<Item("out", z)>>)
    /\ UNCHANGED host

(* A cupy.ndarray of the shape of x, on device 0. *)
Regular(x) ==
    NdArray(x.shape, "int64", 0, [c \in Coords(x.shape) |-> Real(1)])

(* kernel(x, a), kernel(a, x) and kernel(x, x, out=a) for a cupy.ndarray   *)
(* a.                                                                      *)
KernelWithRegular ==
    /\ CanCall
    /\ \E kernel \in Kernels :
          \/ Invoke(Last, kernel, <<Last, Regular(Last)>>, <<>>)
          \/ Invoke(Last, kernel, <<Regular(Last), Last>>, <<>>)
          \/ Invoke(Last, kernel, <<Last, Last>>,
                    <<Item("out", Regular(Last))>>)
    /\ UNCHANGED host

NextKernel ==
    \/ Create(Hosts, CoveringPairs, {REPLICA, SUM})
    \/ ToSumMode
    \/ ToReplicaMode
    \/ KernelOnArrays
    \/ KernelWithOut
    \/ KernelWithRegular

SpecKernel == Init /\ [][NextKernel]_vars

(* The operands of kernel call i, positional then keyword. *)
Operands(i) ==
    [n \in 1 .. Len(chain[i].call.args) |-> chain[i].call.args[n]]
        \o [n \in 1 .. Len(chain[i].call.kwargs) |->
               chain[i].call.kwargs[n].val]

(* Call i is a kernel call on distributed arrays only. *)
KernelOnDistributed(i) ==
    /\ Called(i, "kernel")
    /\ \A n \in 1 .. Len(Operands(i)) : IsDistributed(Operands(i)[n])

(* C17. For positional operands that share one index map, in any modes,    *)
(* the array an element-wise kernel f returns materializes to f applied    *)
(* pointwise to the materialized operands.                                 *)
C17_KernelIsPointwise ==
    \A i \in 1 .. Len(chain) :
        (/\ KernelOnDistributed(i)
         /\ chain[i].call.kwargs = <<>>
         /\ chain[i].call.args[1].device_mapping
                = chain[i].call.args[2].device_mapping)
            => LET x == asnumpy(chain[i].call.args[1], 0)
                   y == asnumpy(chain[i].call.args[2], 0)
                   r == chain[i].out
               IN  (~IsErr(x) /\ ~IsErr(y))
                       => /\ IsDistributed(r)
                          /\ ~IsErr(asnumpy(r, 0))
                          /\ \A c \in Coords(x.shape) :
                                asnumpy(r, 0).v[c]
                                    = Apply2(chain[i].call.kernel,
                                             x.v[c], y.v[c])

(* C18. Every shard an element-wise kernel is invoked on was taken from a  *)
(* distributed array in REPLICA mode, for positional and for keyword       *)
(* operands.                                                               *)
C18_KernelSeesReplica ==
    \A i \in 1 .. Len(chain) :
        Called(i, "kernel")
            => \A k \in 1 .. Len(chain[i].calls) :
                   \A n \in 1 .. Len(chain[i].calls[k].operands) :
                       chain[i].calls[k].operands[n].mode = REPLICA

C20_MixedOperandsTypeError ==
    \A i \in 1 .. Len(chain) :
        (/\ Called(i, "kernel")
         /\ \E n \in 1 .. Len(Operands(i)) : IsNdarray(Operands(i)[n])
         /\ \E n \in 1 .. Len(Operands(i)) : IsDistributed(Operands(i)[n]))
            => /\ chain[i].out = Raise("TypeError")
               /\ chain[i].calls = <<>>
               /\ chain[i].written = <<>>

-----------------------------------------------------------------------------
(* Element-wise kernel calls that cannot produce an array: operands of     *)
(* other shapes or shard shapes, and the kernel of two outputs.            *)

(* A second array of a shorter shape, made by the factory. *)
ShorterArrays ==
    {distributed_array(H, M, REPLICA).result :
        H \in HostBuffers(MaxLen - 1, {"int64"}),
        M \in {M \in MappingsOn(MaxPair, ChunkSlices(MaxLen - 1, {1})) :
                  Covers(<<MaxLen - 1>>, M)}}

(* kernel(x, y) for the latest array x and a shorter array y. *)
KernelOnShorter ==
    /\ CanCall
    /\ \E kernel \in Kernels, y \in ShorterArrays :
          Invoke(Last, kernel, <<Last, y>>, <<>>)
    /\ UNCHANGED host

(* kernel(x, y) for the kernel of two outputs. *)
KernelOfTwoOutputs ==
    /\ CanCall
    /\ \E y \in Arrays : Invoke(Last, "add_multiply", <<Last, y>>, <<>>)
    /\ UNCHANGED host

NextKernelFails ==
    \/ Create(HostBuffers(MaxLen, {"int64"}), CoveringPairs, {REPLICA, SUM})
    \/ ToReplicaMode
    \/ Reshard(UnitPairs)
    \/ KernelOnArrays
    \/ KernelOnShorter
    \/ KernelOfTwoOutputs

SpecKernelFails == Init /\ [][NextKernelFails]_vars

(* The operands of call i have different shapes. *)
ShapesDiffer(i) ==
    \E n, m \in 1 .. Len(Operands(i)) :
        Operands(i)[n].shape # Operands(i)[m].shape

(* The operands of call i have shards of different shapes on a device. *)
ShardShapesDiffer(i) ==
    \E n, m \in 1 .. Len(Operands(i)) :
        \E k \in 1 .. Len(Operands(i)[n].chunks) :
            LET dev == Operands(i)[n].chunks[k].key
            IN  /\ DictHas(Operands(i)[m].chunks, dev)
                /\ DictGet(Operands(i)[m].chunks, dev).shape
                       # Operands(i)[n].chunks[k].val.shape

(* C21. An element-wise kernel call whose distributed operands have        *)
(* different shapes, or different shard shapes on some device, fails with  *)
(* a ShapeError and produces no output array.                              *)
C21_ShapeMismatchShapeError ==
    \A i \in 1 .. Len(chain) :
        (/\ KernelOnDistributed(i)
         /\ ShapesDiffer(i) \/ ShardShapesDiffer(i))
            => chain[i].out = Raise("ShapeError")

(* What the last kernel invocation of call i returned. *)
LastReturned(i) ==
    LET inv == chain[i].calls[Len(chain[i].calls)]
    IN  KernelCall(chain[i].call.kernel,
                   [n \in 1 .. Len(inv.operands) |-> inv.operands[n].data],
                   <<>>, inv.device)

(* C22. When the kernel returns anything other than a single array for     *)
(* some shard, the call fails with the dedicated error 'kernels returning  *)
(* other than single array not supported' and returns no array.            *)
C22_TupleResultDedicatedError ==
    \A i \in 1 .. Len(chain) :
        (/\ KernelOnDistributed(i)
         /\ chain[i].call.kwargs = <<>>
         /\ chain[i].calls # <<>>
         /\ ~IsErr(LastReturned(i))
         /\ ~IsNdarray(LastReturned(i)))
            => chain[i].out = NotSingleArray

-----------------------------------------------------------------------------
(* Reductions of arrays of two axes, and of what they return. *)

MaxRows == 2

MaxCols == 2

Shape2D == <<MaxRows, MaxCols>>

(* The host buffers of shape (MaxRows, MaxCols) that hold the distinct     *)
(* non-zero numbers b, b + 1, ... in row-major order.                      *)
Hosts2D ==
    {NdArray(Shape2D, "int64", "host",
             [c \in Coords(Shape2D) |-> Real(b + MaxCols * c[1] + c[2])]) :
        b \in 1 .. MaxVal}

(* The device mappings {0: (r0, c0), 1: (r1, c1), ...} of contiguous       *)
(* shards that cover the shape.                                            *)
Mappings2D ==
    {M \in UNION {{[k \in 1 .. m |-> Item(k - 1, f[k])] :
                      f \in [1 .. m -> {<<r, c>> :
                                 r \in ChunkSlices(MaxRows, {1}),
                                 c \in ChunkSlices(MaxCols, {1})}]} :
                     m \in 1 .. MaxDevs} :
        Covers(Shape2D, M)}

Create2D == Create(Hosts2D, Mappings2D, {REPLICA, SUM})

(* kernel(x, axis=axis) for the latest array x and any axis of its rank,   *)
(* counted from the first or from the last dimension.                      *)
ReductionAlong ==
    /\ CanCall
    /\ Len(Last.shape) >= 1
    /\ \E kernel \in {"cupy_sum", "cupy_max"},
          axis \in -Len(Last.shape) .. Len(Last.shape) - 1 :
          chain' = Append(chain,
              Entry([name |-> "reduction", kernel |-> kernel, axis |-> axis],
                    cupy_override_reduction_kernel(
                        Last, kernel, axis, NoneVal, NoneVal, FALSE)))
    /\ UNCHANGED host

NextReduce ==
    \/ Create2D
    \/ ReductionAlong

SpecReduce == Init /\ [][NextReduce]_vars

(* Call i reduces the array call i - 1 returned, with the kernel. *)
Reduced(i, kernel) ==
    /\ i >= 2
    /\ Called(i, "reduction")
    /\ chain[i].call.kernel = kernel
    /\ IsDistributed(chain[i - 1].out)

(* The axis of call i, counted from the first dimension. *)
AxisOf(i) ==
    IF chain[i].call.axis < 0
    THEN chain[i].call.axis + Len(chain[i - 1].out.shape)
    ELSE chain[i].call.axis

(* The tuple s with the entry of axis ax removed. *)
Without(s, ax) ==
    [n \in 1 .. Len(s) - 1 |-> IF n <= ax THEN s[n] ELSE s[n + 1]]

(* The numbers of the ndarray np along axis ax at the reduced coordinate   *)
(* c, folded by f.                                                         *)
AlongAxis(f, np, ax, c) ==
    FoldRange(f, LAMBDA k : np.v[ReducedFrom(c, ax, k)], np.shape[ax + 1])

(* C25. For every array X a sum reduction along an axis returns an array   *)
(* in SUM mode that materializes to the sum of materialize(X) along that   *)
(* axis.                                                                   *)
C25_SumReduction ==
    \A i \in 1 .. Len(chain) :
        Reduced(i, "cupy_sum")
            => LET x == asnumpy(chain[i - 1].out, 0)
                   R == chain[i].out
               IN  IsNdarray(x)
                       => /\ IsDistributed(R)
                          /\ R.mode = SUM
                          /\ LET r == asnumpy(R, 0)
                             IN  /\ IsNdarray(r)
                                 /\ r.shape = Without(x.shape, AxisOf(i))
                                 /\ \A c \in Coords(r.shape) :
                                        r.v[c] = AlongAxis("add", x,
                                                           AxisOf(i), c)

(* C26. For every array X a max reduction along an axis returns an array   *)
(* in REPLICA mode in which every shard holds, at each coordinate of its   *)
(* reduced index, the maximum of materialize(X) along that axis.           *)
C26_MaxReduction ==
    \A i \in 1 .. Len(chain) :
        Reduced(i, "cupy_max")
            => LET x == asnumpy(chain[i - 1].out, 0)
                   R == chain[i].out
               IN  IsNdarray(x)
                       => /\ IsDistributed(R)
                          /\ R.mode = REPLICA
                          /\ R.shape = Without(x.shape, AxisOf(i))
                          /\ \A k \in Shards(R) :
                                 \A c \in ShardCoords(R, k) :
                                     /\ ShardHolds(R, k, c)
                                     /\ ShardValue(R, k, c)
                                            = AlongAxis("maximum", x,
                                                        AxisOf(i), c)

(* C27. For any axis a reduction accepts, negative ones included, the      *)
(* result's shape and every chunk index of the result are the operand's    *)
(* with exactly that axis removed and the other axes kept in order.        *)
C27_ReductionRemovesAxis ==
    \A i \in 1 .. Len(chain) :
        (Reduced(i, "cupy_sum") \/ Reduced(i, "cupy_max"))
            => LET X == chain[i - 1].out
                   R == chain[i].out
               IN  /\ IsDistributed(R)
                   /\ R.shape = Without(X.shape, AxisOf(i))
                   /\ \A k \in 1 .. Len(X.device_mapping) :
                          /\ DictHas(R.device_mapping, X.device_mapping[k].key)
                          /\ DictGet(R.device_mapping, X.device_mapping[k].key)
                                 = Without(X.device_mapping[k].val, AxisOf(i))

-----------------------------------------------------------------------------
(* cupyx.distributed.array: chunks with pending updates.                   *)

(* The modes of _modes: REPLICA, and the operator modes SUM and MAX. *)
MAX == "MAX"

is_op_mode(mode) == mode # REPLICA

(* mode.func, as a binary function. *)
func(mode) == IF mode = SUM THEN "add" ELSE "maximum"

(* The least number of the modelled dtypes. *)
Lowest == -(2 ^ 15)

(* mode.identity_of(dtype). *)
identity_of(mode, dtype) == IF mode = SUM THEN 0 ELSE Lowest

(* DataPlaceholder(shape, device). *)
DataPlaceholder(shape, device) ==
    [placeholder |-> TRUE, shape |-> shape, device |-> device]

IsPlaceholder(data) == "placeholder" \in DOMAIN data

(* DataTransfer(data, ready, prevent_gc). *)
DataTransfer(data, ready, prevent_gc) ==
    [data |-> data, ready |-> ready, prevent_gc |-> prevent_gc]

(* A PartialUpdate, the pair (update, idx). *)
PartialUpdate(update, idx) == [update |-> update, idx |-> idx]

(* Chunk(data, ready, index, updates, prevent_gc). *)
Chunk(data, ready, index, updates, prevent_gc) ==
    [data |-> data, ready |-> ready, index |-> index, updates |-> updates,
     prevent_gc |-> prevent_gc]

(* What a stream is asked to do, in order: wait for an event, run a        *)
(* kernel that writes or reads buffers, record an event, and what the host *)
(* waits for.                                                              *)
WaitEvent(event) == [op |-> "wait_event", event |-> event]

Record(event) == [op |-> "record", event |-> event]

Synchronize == [op |-> "synchronize"]

EventSynchronize(event) == [op |-> "event_synchronize", event |-> event]

Write(update, idx) == [op |-> "write", update |-> update, idx |-> idx]

(* cupy.empty(shape, dtype): the cells hold what the memory held. *)
cupy_empty(shape, dtype, device, garbage) ==
    NdArray(shape, dtype, device,
            [c \in Coords(shape) |-> astype(Real(garbage[c]), dtype)])

(* cupy.full(shape, value, dtype). *)
cupy_full(shape, value, dtype, device) ==
    NdArray(shape, dtype, device, [c \in Coords(shape) |-> Real(value)])

(* cupy.atleast_1d(a). *)
atleast_1d(a) ==
    IF Len(a.shape) = 0
    THEN NdArray(<<1>>, a.dtype, a.device, [c \in Coords(<<1>>) |-> a.v[<<>>]])
    ELSE a

(* Lines 119-129 of apply_updates: the buffer that replaces a placeholder. *)
_apply_updates_buffer(self, mode, garbage) ==
    IF IsPlaceholder(self.data)
    THEN atleast_1d(
             IF is_op_mode(mode)
             THEN cupy_full(self.data.shape,
                            identity_of(mode, self.updates[1].update.data.dtype),
                            self.updates[1].update.data.dtype,
                            self.data.device)
             ELSE cupy_empty(self.data.shape,
                             self.updates[1].update.data.dtype,
                             self.data.device, garbage))
    ELSE self.data

(* The updates are folded from the last one on: the mutant of              *)
(* _apply_updates_order.                                                   *)
_apply_updates_reversed(updates, k) == Len(updates) + 1 - k

(* The update the k-th turn of the loop of line 131 takes. *)
_apply_updates_order(updates, k) == k

(* Lines 134-137: one update written into data. *)
_apply_update(data, mode, update, idx) ==
    IF is_op_mode(mode)
    THEN Bind(GetItem(data, idx), LAMBDA cur :
         Bind(Elementwise2(func(mode), cur, update.data, data.device),
              LAMBDA new : SetItem(data, idx, new)))
    ELSE SetItem(data, idx, update.data)

(* The loop of lines 131-138, from the k-th turn on. *)
RECURSIVE _apply_updates_loop(_, _, _, _, _)
_apply_updates_loop(data, mode, updates, k, trace) ==
    IF k > Len(updates) THEN [data |-> data, trace |-> trace]
    ELSE With(updates[_apply_updates_order(updates, k)], LAMBDA u :
         Bind(_apply_update(data, mode, u.update, u.idx), LAMBDA new :
         _apply_updates_loop(
             new, mode, updates, k + 1,
             trace \o <<WaitEvent(u.update.ready), Synchronize,
                        Write(_apply_updates_order(updates, k), u.idx),
                        Synchronize>>)))

(* The chunk keeps only the updates in prevent_gc: the mutant of           *)
(* _apply_updates_done.                                                    *)
_apply_updates_forgets(self, r) ==
    [chunk |-> Chunk(r.data, self.ready, self.index, <<>>, self.updates),
     trace |-> r.trace \o <<Record(self.ready), EventSynchronize(self.ready)>>]

(* Lines 140-144: the chunk after the loop. *)
_apply_updates_done(self, r) ==
    [chunk |-> Chunk(r.data, self.ready, self.index, <<>>,
                     <<self.prevent_gc, self.updates>>),
     trace |-> r.trace \o <<Record(self.ready), EventSynchronize(self.ready)>>]

(* Chunk.apply_updates(mode): the chunk as the call leaves it and what the *)
(* call asked of the current stream.                                       *)
apply_updates(self, mode, garbage) ==
    IF Len(self.updates) = 0 THEN [chunk |-> self, trace |-> <<>>]
    ELSE Bind(_apply_updates_loop(
                  _apply_updates_buffer(self, mode, garbage), mode,
                  self.updates, 1, <<WaitEvent(self.ready)>>),
              LAMBDA r : _apply_updates_done(self, r))

-----------------------------------------------------------------------------
(* Chunks of one axis with pending updates, and apply_updates on them. *)

MaxUpdates == 2

(* The event a chunk holds as `ready`, and the one of its k-th update. *)
ChunkReady == [event |-> "chunk"]

UpdateReady(k) == [event |-> k]

(* The k-th update delivered to a chunk: a buffer with numbers of its own  *)
(* for the cells idx selects.                                              *)
UpdateOf(k, sl, dtype) ==
    PartialUpdate(
        DataTransfer(
            NdArray(<<RangeLen(sl.start, sl.stop, sl.step)>>, dtype, 0,
                    [c \in Coords(<<RangeLen(sl.start, sl.stop, sl.step)>>) |->
                        Real(10 * k + c[1])]),
            UpdateReady(k), NoneVal),
        <<sl>>)

(* The k-th update delivered to a chunk of no axis. *)
ScalarUpdateOf(k, dtype) ==
    PartialUpdate(
        DataTransfer(NdArray(<<>>, dtype, 0,
                             [c \in Coords(<<>>) |-> Real(10 * k)]),
                     UpdateReady(k), NoneVal),
        <<>>)

(* The lists of at most MaxUpdates updates for a chunk of the shape. *)
UpdateLists(shape) ==
    UNION {{[k \in 1 .. m |->
                IF shape = <<>> THEN ScalarUpdateOf(k, f[k][2])
                ELSE UpdateOf(k, f[k][1], f[k][2])] :
               f \in [1 .. m -> (IF shape = <<>> THEN {FullSlice}
                                 ELSE ChunkSlices(shape[1], 1 .. MaxStep))
                                    \X {"int64", "float64"}]} :
              m \in 0 .. MaxUpdates}

(* What a chunk on device 0 holds: a buffer of shape (MaxLen,), or a       *)
(* placeholder of that shape or of no axis.                                *)
ChunkData ==
    {NdArray(<<MaxLen>>, "int64", 0,
             [c \in Coords(<<MaxLen>>) |-> Real(b + c[1])]) :
        b \in 1 .. MaxVal}
    \cup {DataPlaceholder(<<MaxLen>>, 0), DataPlaceholder(<<>>, 0)}

IsChunk(x) == "updates" \in DOMAIN x

(* Chunk(data, ready, index, updates, prevent_gc). *)
MakeChunk ==
    /\ chain = <<>>
    /\ \E data \in ChunkData, prevent_gc \in {NoneVal, [kept |-> "source"]} :
       \E updates \in UpdateLists(data.shape) :
          chain' = <<[call |-> [name |-> "Chunk"],
                      out |-> Chunk(data, ChunkReady,
                                    [i \in 1 .. Len(data.shape) |-> FullSlice],
                                    updates, prevent_gc),
                      trace |-> <<>>]>>
    /\ UNCHANGED host

(* chunk.apply_updates(mode) on the chunk just made. *)
ApplyUpdates ==
    /\ Len(chain) = 1
    /\ IsChunk(Last)
    /\ \E mode \in {REPLICA, SUM, MAX} :
       \E garbage \in IF IsPlaceholder(Last.data) /\ ~is_op_mode(mode)
                         /\ Len(Last.updates) > 0
                      THEN [Coords(Last.data.shape) -> Values]
                      ELSE {[c \in Coords(Last.data.shape) |-> 0]} :
       \E r \in {apply_updates(Last, mode, garbage)} :
          chain' = Append(chain,
              [call |-> [name |-> "apply_updates", mode |-> mode],
               out |-> IF IsErr(r) THEN r ELSE r.chunk,
               trace |-> IF IsErr(r) THEN <<>> ELSE r.trace])
    /\ UNCHANGED host

NextUpdates ==
    \/ MakeChunk
    \/ ApplyUpdates

SpecUpdates == Init /\ [][NextUpdates]_vars

(* Call i is apply_updates on the chunk call i - 1 left. *)
Applied(i) ==
    /\ i >= 2
    /\ Called(i, "apply_updates")
    /\ IsChunk(chain[i - 1].out)

(* The cells of a buffer of the shape an update writes, and the number it  *)
(* holds for cell c.                                                       *)
WholeIdx(u, shape) ==
    [i \in 1 .. Len(shape) |-> IF i <= Len(u.idx) THEN u.idx[i] ELSE FullSlice]

UpdateCells(u, shape) == CoordsOf(shape, WholeIdx(u, shape))

UpdateAt(u, shape, c) ==
    IF u.update.data.shape = <<>> THEN u.update.data.v[<<>>]
    ELSE u.update.data.v[LocalCoord(shape, WholeIdx(u, shape), c)]

(* The number of cell c after the first m updates, from the number prev. *)
RECURSIVE Folded(_, _, _, _, _, _)
Folded(prev, mode, updates, m, shape, c) ==
    IF m = 0 THEN prev
    ELSE IF c \notin UpdateCells(updates[m], shape)
    THEN Folded(prev, mode, updates, m - 1, shape, c)
    ELSE IF mode = REPLICA THEN UpdateAt(updates[m], shape, c)
    ELSE Apply2(func(mode), Folded(prev, mode, updates, m - 1, shape, c),
                UpdateAt(updates[m], shape, c))

(* Whether some update writes cell c. *)
Updated(updates, shape, c) ==
    \E m \in 1 .. Len(updates) : c \in UpdateCells(updates[m], shape)

(* C28. apply_updates(mode) folds the pending updates into data in list    *)
(* order: in REPLICA mode each update overwrites data[local_idx], so the   *)
(* last update to a coordinate wins; in an operator mode each update sets  *)
(* data[local_idx] to op(data[local_idx], update data); coordinates no     *)
(* update covers keep their previous value (the mode's identity in the     *)
(* buffer that replaces a placeholder in an operator mode).                *)
C28_UpdatesFoldInOrder ==
    \A i \in 1 .. Len(chain) :
        (Applied(i) /\ Len(chain[i - 1].out.updates) > 0)
            => LET self == chain[i - 1].out
                   mode == chain[i].call.mode
                   new == chain[i].out
               IN  /\ IsChunk(new)
                   /\ IsNdarray(new.data)
                   /\ \A c \in Coords(new.data.shape) :
                          IF ~IsPlaceholder(self.data)
                          THEN new.data.v[c]
                                 = Folded(self.data.v[c], mode, self.updates,
                                          Len(self.updates), new.data.shape, c)
                          ELSE IF is_op_mode(mode)
                          THEN new.data.v[c]
                                 = Folded(Real(identity_of(mode, new.data.dtype)),
                                          mode, self.updates,
                                          Len(self.updates), new.data.shape, c)
                          ELSE Updated(self.updates, new.data.shape, c)
                                  => new.data.v[c]
                                       = Folded(Real(0), mode, self.updates,
                                                Len(self.updates),
                                                new.data.shape, c)

(* REPLICA updates that overlap were applied: the later one won. *)
C28_Witness ==
    /\ Len(chain) >= 2
    /\ Applied(2)
    /\ chain[2].call.mode = REPLICA
    /\ Len(chain[1].out.updates) = 2
    /\ chain[1].out.data.shape = <<MaxLen>>
    /\ \E c \in UpdateCells(chain[1].out.updates[1], <<MaxLen>>)
                  \cap UpdateCells(chain[1].out.updates[2], <<MaxLen>>) :
          /\ chain[2].out.data.v[c]
                 = UpdateAt(chain[1].out.updates[2], <<MaxLen>>, c)
          /\ chain[2].out.data.v[c]
                 # UpdateAt(chain[1].out.updates[1], <<MaxLen>>, c)

(* The place of the last write in the stream's work, 0 if there is none. *)
LastWrite(trace) ==
    Max(0, CHOOSE p \in 0 .. Len(trace) :
               /\ p > 0 => trace[p].op = "write"
               /\ \A q \in p + 1 .. Len(trace) : trace[q].op # "write")

(* What C29 says of call i but for the shape of the buffer. *)
AppliedState(i) ==
    LET self == chain[i - 1].out
        mode == chain[i].call.mode
        new == chain[i].out
        trace == chain[i].trace
    IN  IF Len(self.updates) = 0
        THEN new = self /\ trace = <<>>
        ELSE /\ IsChunk(new)
             /\ new.updates = <<>>
             /\ IsNdarray(new.data)
             /\ IsPlaceholder(self.data)
                    => /\ new.data.dtype = self.updates[1].update.data.dtype
                       /\ is_op_mode(mode)
                            => \A c \in Coords(new.data.shape) :
                                   ~Updated(self.updates, new.data.shape, c)
                                       => new.data.v[c]
                                            = Real(identity_of(
                                                  mode, new.data.dtype))
             /\ new.prevent_gc = <<self.prevent_gc, self.updates>>
             /\ new.ready = self.ready
             /\ LastWrite(trace) > 0
             /\ \E p \in LastWrite(trace) + 1 .. Len(trace) :
                    trace[p] = Record(new.ready)

-----------------------------------------------------------------------------
(* cupyx.distributed.array: element-wise kernels on arrays of chunks.      *)

(* DistributedArray(shape, dtype, chunks_map, mode, comms): chunks_map is  *)
(* the dict of the lists of chunks of the devices.                         *)
DistributedArray(shape, dtype, chunks_map, mode, comms) ==
    [shape |-> shape, dtype |-> dtype, chunks_map |-> chunks_map,
     mode |-> mode, comms |-> comms]

IsDArray(x) == "chunks_map" \in DOMAIN x

(* arr.index_map: the indices of the chunks, by device. *)
index_map(arr) ==
    [k \in 1 .. Len(arr.chunks_map) |->
        Item(arr.chunks_map[k].key,
             [i \in 1 .. Len(arr.chunks_map[k].val) |->
                 arr.chunks_map[k].val[i].index])]

(* d1 == d2 for two dicts. *)
DictEq(d1, d2) ==
    /\ {d1[k].key : k \in 1 .. Len(d1)} = {d2[k].key : k \in 1 .. Len(d2)}
    /\ \A k \in 1 .. Len(d1) : DictGet(d2, d1[k].key) = d1[k].val

(* _util.all_chunks(chunks_map): the (dev, chunk) pairs in order, each     *)
(* with its place in the list of its device.                               *)
RECURSIVE all_chunks(_)
all_chunks(chunks_map) ==
    IF Len(chunks_map) = 0 THEN <<>>
    ELSE [i \in 1 .. Len(chunks_map[1].val) |->
             [dev |-> chunks_map[1].key, chunk_i |-> i,
              chunk |-> chunks_map[1].val[i]]]
         \o all_chunks(Tail(chunks_map))

(* arr._to_replica_mode() of an array in REPLICA mode. *)
_to_replica_mode(arr) == arr

(* What the stream of a device is asked besides: to allocate a buffer, and *)
(* to run a kernel that writes the cells idx of the chunk.                 *)
Alloc(dev, shape) == [op |-> "empty", dev |-> dev, shape |-> shape]

Launch(dev, chunk_i, idx) ==
    [op |-> "kernel", dev |-> dev, chunk_i |-> chunk_i, idx |-> idx]

(* stream.record(): a new event, recorded. *)
Fresh(trace) == [event |-> <<"record", Len(trace) + 1>>]

(* The exception r, if r is one, raised after the work of the trace. *)
Failing(r, trace) == IF IsErr(r) THEN [err |-> r.err, trace |-> trace] ELSE r

(* The out_dtypes of lines 175-185. *)
_guess_out_dtypes(kernel, a_dtype, b_dtype) ==
    IF kernel = "add_multiply"
    THEN <<result_type(a_dtype, b_dtype), result_type(a_dtype, b_dtype)>>
    ELSE <<result_type(a_dtype, b_dtype)>>

(* kernel(x[x_idx], y[y_idx], out[x_idx]): the kernel writes the view of   *)
(* out.                                                                    *)
_peer_access_kernel(kernel, x, x_idx, y, y_idx, out) ==
    Bind(GetItem(x, x_idx), LAMBDA xs :
    Bind(GetItem(y, y_idx), LAMBDA ys :
    Bind(Elementwise2(kernel, xs, ys, out.device), LAMBDA r :
         SetItem(out, x_idx, r))))

(* The kernel is run on the whole of a's chunk whatever b's chunk covers:  *)
(* the mutant of _peer_access_index.                                       *)
_peer_access_whole(idx, intersection, shape) ==
    _index_for_subindex(idx, idx, shape)

(* Lines 216-219: the place of the intersection in a chunk. *)
_peer_access_index(idx, intersection, shape) ==
    _index_for_subindex(idx, intersection, shape)

(* Lines 206-225: the loop over the chunks of b for one chunk of a, from   *)
(* the j-th on.                                                            *)
RECURSIVE _peer_access_loop_b(_, _, _, _, _, _)
_peer_access_loop_b(kernel, a, bs, j, shape, st) ==
    IF j > Len(bs) THEN st
    ELSE IF ~IsNdarray(bs[j].chunk.data)
    THEN Failing(Raise("AssertionError"), st.trace)
    ELSE
    With(Failing(_index_intersection(a.chunk.index, bs[j].chunk.index, shape),
                 st.trace),
         LAMBDA intersection :
    IF IsErr(intersection) THEN intersection
    ELSE IF IsNone(intersection)
    THEN _peer_access_loop_b(kernel, a, bs, j + 1, shape, st)
    ELSE
    With(_peer_access_index(a.chunk.index, intersection.idx, shape),
         LAMBDA a_new_idx :
    With(_peer_access_index(bs[j].chunk.index, intersection.idx, shape),
         LAMBDA b_new_idx :
    With(Failing(_peer_access_kernel(kernel, a.chunk.data, a_new_idx.idx,
                                     bs[j].chunk.data, b_new_idx.idx, st.data),
                 st.trace \o <<WaitEvent(bs[j].chunk.ready)>>),
         LAMBDA new_chunk_data :
    IF IsErr(new_chunk_data) THEN new_chunk_data
    ELSE _peer_access_loop_b(
             kernel, a, bs, j + 1, shape,
             [data |-> new_chunk_data,
              trace |-> st.trace
                  \o <<WaitEvent(bs[j].chunk.ready),
                       Launch(a.dev, a.chunk_i, a_new_idx.idx)>>])))))

(* chunks_map.setdefault(dev, []).append(chunk). *)
_append_chunk(chunks_map, dev, chunk) ==
    IF DictHas(chunks_map, dev)
    THEN [k \in 1 .. Len(chunks_map) |->
             IF chunks_map[k].key = dev
             THEN Item(dev, Append(chunks_map[k].val, chunk))
             ELSE chunks_map[k]]
    ELSE Append(chunks_map, Item(dev, <<chunk>>))

(* Lines 197-230: the loop over the chunks of a, from the i-th on. *)
RECURSIVE _peer_access_loop_a(_, _, _, _, _, _, _, _, _)
_peer_access_loop_a(kernel, as, bs, i, shape, dtype, b_chunks_map, fill, st) ==
    IF i > Len(as) THEN st
    ELSE IF ~IsNdarray(as[i].chunk.data)
    THEN Failing(Raise("AssertionError"), st.trace)
    ELSE
    With(_peer_access_loop_b(
             kernel, as[i], bs, 1, shape,
             [data |-> cupy_empty(as[i].chunk.data.shape, dtype, as[i].dev,
                                  [c \in Coords(as[i].chunk.data.shape) |->
                                      fill]),
              trace |-> st.trace
                  \o <<WaitEvent(as[i].chunk.ready),
                       Alloc(as[i].dev, as[i].chunk.data.shape)>>]),
         LAMBDA r :
    IF IsErr(r) THEN r
    ELSE _peer_access_loop_a(
             kernel, as, bs, i + 1, shape, dtype, b_chunks_map, fill,
             [chunks_map |->
                  _append_chunk(st.chunks_map, as[i].dev,
                                Chunk(r.data, Fresh(r.trace), as[i].chunk.index,
                                      <<>>, b_chunks_map)),
              trace |-> Append(r.trace, Record(Fresh(r.trace)))]))

(* What an executor returns or raises, the work it asked of the streams    *)
(* and the path it is.                                                     *)
_executed(path, r, shape, dtype, comms) ==
    [path |-> path,
     out |-> IF IsErr(r) THEN Raise(r.err)
             ELSE DistributedArray(shape, dtype, r.chunks_map, REPLICA, comms),
     trace |-> r.trace]

(* Lines 172-233, a and b being the operands in REPLICA mode. *)
_execute_peer_access_of(kernel, a, b, fill) ==
    With(_guess_out_dtypes(kernel, a.dtype, b.dtype), LAMBDA out_dtypes :
        IF Len(out_dtypes) # 1
        THEN _executed("peer_access", Failing(Raise("RuntimeError"), <<>>),
                       a.shape, NoneVal, a.comms)
        ELSE _executed("peer_access",
                       _peer_access_loop_a(
                           kernel, all_chunks(a.chunks_map),
                           all_chunks(b.chunks_map), 1, a.shape, out_dtypes[1],
                           b.chunks_map, fill,
                           [chunks_map |-> <<>>, trace |-> <<>>]),
                       a.shape, out_dtypes[1], a.comms))

(* _execute_peer_access(kernel, args, kwargs); fill is what the memory of  *)
(* the new buffers held.                                                   *)
_execute_peer_access(kernel, args, kwargs, fill) ==
    IF Len(args) < 2
    THEN _executed("peer_access", Failing(Raise("AssertionError"), <<>>),
                   NoneVal, NoneVal, NoneVal)
    ELSE IF Len(args) > 2 \/ Len(kwargs) > 0
    THEN _executed("peer_access", Failing(Raise("RuntimeError"), <<>>),
                   NoneVal, NoneVal, NoneVal)
    ELSE _execute_peer_access_of(kernel, _to_replica_mode(args[1]),
                                 _to_replica_mode(args[2]), fill)

(* The operands, positional then keyword. *)
_chain_operands(args, kwargs) ==
    args \o [n \in 1 .. Len(kwargs) |-> kwargs[n].val]

(* Only the first two operands are compared: the mutant of                 *)
(* _is_peer_access_needed.                                                 *)
_is_peer_access_needed_by_two(args, kwargs) ==
    With(_chain_operands(args, kwargs), LAMBDA operands :
        /\ Len(operands) >= 2
        /\ ~DictEq(index_map(operands[2]), index_map(operands[1])))

_is_peer_access_needed(args, kwargs) ==
    With(_chain_operands(args, kwargs), LAMBDA operands :
        \E n \in 2 .. Len(operands) :
            ~DictEq(index_map(operands[n]), index_map(operands[1])))

(* arr._chunks_map[dev][chunk_i]. *)
_chunk_at(arr, dev, chunk_i) == DictGet(arr.chunks_map, dev)[chunk_i]

(* arr with the chunk in place of arr._chunks_map[dev][chunk_i]. *)
_chunk_replaced(arr, dev, chunk_i, chunk) ==
    [arr EXCEPT !.chunks_map =
        [k \in 1 .. Len(arr.chunks_map) |->
            IF arr.chunks_map[k].key = dev
            THEN Item(dev, [arr.chunks_map[k].val EXCEPT ![chunk_i] = chunk])
            ELSE arr.chunks_map[k]]]

(* arr._apply_updates_all_chunks(): apply_updates(arr._mode) on every      *)
(* chunk, from the n-th of cs on.                                          *)
RECURSIVE _apply_updates_all_chunks_from(_, _, _, _)
_apply_updates_all_chunks_from(cs, n, fill, st) ==
    IF n > Len(cs) THEN st
    ELSE With(Failing(apply_updates(
                          cs[n].chunk, st.arr.mode,
                          [c \in Coords(cs[n].chunk.data.shape) |-> fill]),
                      st.trace),
              LAMBDA r :
         IF IsErr(r) THEN r
         ELSE _apply_updates_all_chunks_from(
                  cs, n + 1, fill,
                  [arr |-> _chunk_replaced(st.arr, cs[n].dev, cs[n].chunk_i,
                                           r.chunk),
                   trace |-> st.trace \o r.trace]))

_apply_updates_all_chunks(arr, fill, trace) ==
    _apply_updates_all_chunks_from(all_chunks(arr.chunks_map), 1, fill,
                                   [arr |-> arr, trace |-> trace])

(* Lines 37-38 of _find_updates: the updates of every operand are applied, *)
(* from the n-th operand on.                                               *)
RECURSIVE _find_updates_apply(_, _, _, _)
_find_updates_apply(operands, n, fill, trace) ==
    IF n > Len(operands) THEN [operands |-> operands, trace |-> trace]
    ELSE With(_apply_updates_all_chunks(operands[n], fill, trace), LAMBDA r :
         IF IsErr(r) THEN r
         ELSE _find_updates_apply([operands EXCEPT ![n] = r.arr], n + 1,
                                  fill, r.trace))

(* The updates of the first operand that has some are returned even when   *)
(* another has some too: the mutant of _find_updates.                      *)
_find_updates_of_first(operands, dev, chunk_i, fill, trace) ==
    With({n \in 1 .. Len(operands) :
             Len(_chunk_at(operands[n], dev, chunk_i).updates) > 0},
         LAMBDA having :
        [updates |-> IF having = {} THEN <<>>
                     ELSE _chunk_at(operands[CHOOSE n \in having :
                                                 \A m \in having : n <= m],
                                    dev, chunk_i).updates,
         operands |-> operands, trace |-> trace])

(* _find_updates(args, kwargs, dev, chunk_i) on the operands, positional   *)
(* then keyword: the updates it returns and the operands as it leaves      *)
(* them.                                                                   *)
_find_updates(operands, dev, chunk_i, fill, trace) ==
    With({n \in 1 .. Len(operands) :
             Len(_chunk_at(operands[n], dev, chunk_i).updates) > 0},
         LAMBDA having :
        IF Cardinality(having) <= 1
        THEN [updates |-> IF having = {} THEN <<>>
                          ELSE _chunk_at(operands[CHOOSE n \in having : TRUE],
                                         dev, chunk_i).updates,
              operands |-> operands, trace |-> trace]
        ELSE With(_find_updates_apply(operands, 1, fill, trace), LAMBDA r :
             IF IsErr(r) THEN r
             ELSE [updates |-> <<>>, operands |-> r.operands,
                   trace |-> r.trace]))

(* _access_chunks_data: the data of the chunks of the operands, after      *)
(* the stream waits for each to be ready.                                  *)
_access_chunks_data(operands, dev, chunk_i) ==
    [data |-> Stored([n \in 1 .. Len(operands) |->
                 _chunk_at(operands[n], dev, chunk_i).data]),
     trace |-> [n \in 1 .. Len(operands) |->
                   WaitEvent(_chunk_at(operands[n], dev, chunk_i).ready)]]

(* _change_all_to_replica_mode. *)
_change_all_to_replica_mode(operands) ==
    [n \in 1 .. Len(operands) |-> _to_replica_mode(operands[n])]

(* _Chunk.create_placeholder(shape, device, index), with its new event. *)
create_placeholder(shape, device, index, event) ==
    Chunk(DataPlaceholder(shape, device), event, index, <<>>, NoneVal)

(* chunk.add_update(update, idx). *)
add_update(chunk, update, idx) ==
    [chunk EXCEPT !.updates = Append(chunk.updates, PartialUpdate(update, idx))]

(* The kernel called on the data of the operands, the first nargs of them  *)
(* positional and the others with the keys of kwargs.                      *)
_kernel_on(kernel, data, nargs, keys, dev) ==
    KernelCall(kernel, SubSeq(data, 1, nargs),
               [n \in 1 .. Len(keys) |-> Item(keys[n], data[nargs + n])], dev)

(* The chunk of the output is a placeholder only if the first operand's    *)
(* data is one: the mutant of _new_chunk.                                  *)
_new_chunk_of_first(kernel, data, nargs, keys, dev, chunk_i, idx, trace) ==
    IF IsPlaceholder(data[1])
    THEN [chunk |-> create_placeholder(data[1].shape, data[1].device, idx,
                                       [event |-> <<"new", Len(trace)>>]),
          dtype |-> NoneVal, trace |-> trace]
    ELSE IF \E n \in 1 .. Len(data) : IsPlaceholder(data[n])
    THEN Failing(Raise("TypeError"),
                 Append(trace, Launch(dev, chunk_i, idx)))
    ELSE With(Append(trace, Launch(dev, chunk_i, idx)), LAMBDA launched :
         With(_kernel_on(kernel, data, nargs, keys, dev), LAMBDA new_data :
              [chunk |-> Chunk(new_data, Fresh(launched), idx, <<>>, data),
               dtype |-> [dtype |-> new_data.dtype],
               trace |-> Append(launched, Record(Fresh(launched)))]))

(* Lines 97-109: the chunk of the output, a placeholder if some operand's  *)
(* data is one and else what the kernel returns.                           *)
_new_chunk(kernel, data, nargs, keys, dev, chunk_i, idx, trace) ==
    IF \E n \in 1 .. Len(data) : IsPlaceholder(data[n])
    THEN With(data[CHOOSE n \in 1 .. Len(data) :
                       /\ IsPlaceholder(data[n])
                       /\ \A m \in n + 1 .. Len(data) : ~IsPlaceholder(data[m])],
              LAMBDA last :
         [chunk |-> create_placeholder(last.shape, last.device, idx,
                                       [event |-> <<"new", Len(trace)>>]),
          dtype |-> NoneVal, trace |-> trace])
    ELSE With(Failing(_kernel_on(kernel, data, nargs, keys, dev), trace),
              LAMBDA new_data :
         IF IsErr(new_data) THEN new_data
         ELSE IF ~IsNdarray(new_data)
         THEN Failing(Raise("AttributeError"),
                      Append(trace, Launch(dev, chunk_i, idx)))
         ELSE With(Append(trace, Launch(dev, chunk_i, idx)), LAMBDA launched :
              [chunk |-> Chunk(new_data, Fresh(launched), idx, <<>>, data),
               dtype |-> [dtype |-> new_data.dtype],
               trace |-> Append(launched, Record(Fresh(launched)))]))

(* Lines 119-128: the operand the kernel gets for an update. *)
_update_operand(data, update, idx) ==
    IF IsPlaceholder(data) THEN update.data ELSE GetItem(data, idx)

(* Lines 118-138: the loop over the updates, from the k-th on. *)
RECURSIVE _update_loop(_, _, _, _, _, _, _, _, _)
_update_loop(kernel, data, nargs, keys, updates, k, dev, chunk_i, st) ==
    IF k > Len(updates) THEN st
    ELSE
    With(Failing(BindAll(Stored([n \in 1 .. Len(data) |->
                             _update_operand(data[n], updates[k].update,
                                             updates[k].idx)]),
                         LAMBDA slices : [slices |-> slices]),
                 st.trace),
         LAMBDA sliced :
    IF IsErr(sliced) THEN sliced
    ELSE
    With(Append(st.trace, WaitEvent(updates[k].update.ready)), LAMBDA waited :
    With(Failing(_kernel_on(kernel, sliced.slices, nargs, keys, dev), waited),
         LAMBDA new_data :
    IF IsErr(new_data) THEN new_data
    ELSE IF ~IsNdarray(new_data)
    THEN Failing(Raise("AttributeError"),
                 Append(waited, Launch(dev, chunk_i, updates[k].idx)))
    ELSE
    With(Append(waited, Launch(dev, chunk_i, updates[k].idx)),
         LAMBDA launched :
    _update_loop(
        kernel, data, nargs, keys, updates, k + 1, dev, chunk_i,
        [chunk |-> add_update(st.chunk,
                              DataTransfer(new_data, Fresh(launched),
                                           sliced.slices),
                              updates[k].idx),
         dtype |-> [dtype |-> new_data.dtype],
         trace |-> Append(launched, Record(Fresh(launched)))])))))

(* Lines 87-138: one chunk position of the device. *)
_execute_kernel_chunk(kernel, nargs, keys, dev, chunk_i, idx, fill, st) ==
    With(_find_updates(st.operands, dev, chunk_i, fill, st.trace),
         LAMBDA found :
    IF IsErr(found) THEN found
    ELSE
    With(_access_chunks_data(found.operands, dev, chunk_i), LAMBDA accessed :
    With(_new_chunk(kernel, accessed.data, nargs, keys, dev, chunk_i, idx,
                    found.trace \o accessed.trace),
         LAMBDA made :
    IF IsErr(made) THEN made
    ELSE
    With(_update_loop(kernel, accessed.data, nargs, keys, found.updates, 1,
                      dev, chunk_i,
                      [chunk |-> made.chunk,
                       dtype |-> IF IsNone(made.dtype) THEN st.dtype
                                 ELSE made.dtype,
                       trace |-> made.trace]),
         LAMBDA r :
    IF IsErr(r) THEN r
    ELSE [operands |-> found.operands,
          chunks_map |-> _append_chunk(st.chunks_map, dev, r.chunk),
          dtype |-> r.dtype, trace |-> r.trace]))))

(* Lines 82-138: the loop over the chunk positions of index_map, from the  *)
(* n-th on.                                                                *)
RECURSIVE _execute_kernel_loop(_, _, _, _, _, _, _)
_execute_kernel_loop(kernel, nargs, keys, positions, n, fill, st) ==
    IF n > Len(positions) THEN st
    ELSE With(_execute_kernel_chunk(
                  kernel, nargs, keys, positions[n].dev, positions[n].chunk_i,
                  positions[n].chunk.index, fill, st),
              LAMBDA r :
         IF IsErr(r) THEN r
         ELSE _execute_kernel_loop(kernel, nargs, keys, positions, n + 1,
                                   fill, r))

(* Lines 140-145. *)
_execute_kernel_checked(r) ==
    IF IsErr(r) THEN r
    ELSE IF \E k \in 1 .. Len(r.chunks_map) :
                \E i \in 1 .. Len(r.chunks_map[k].val) :
                    /\ ~IsNdarray(r.chunks_map[k].val[i].data)
                    /\ ~IsPlaceholder(r.chunks_map[k].val[i].data)
    THEN Failing(Raise("RuntimeError"), r.trace)
    ELSE r

(* _execute_kernel(kernel, args, kwargs) of _elementwise; the operands are *)
(* the positional ones, then the keyword ones with the keys.               *)
_execute_kernel_chunks(kernel, args, kwargs, fill) ==
    With(_change_all_to_replica_mode(_chain_operands(args, kwargs)),
         LAMBDA operands :
    With(_execute_kernel_checked(
             _execute_kernel_loop(
                 kernel, Len(args), [n \in 1 .. Len(kwargs) |-> kwargs[n].key],
                 all_chunks(operands[1].chunks_map), 1, fill,
                 [operands |-> operands, chunks_map |-> <<>>,
                  dtype |-> NoneVal, trace |-> <<>>])),
         LAMBDA r :
    With(operands[IF Len(args) > 0 THEN Len(args) ELSE Len(operands)],
         LAMBDA last :
    _executed("kernel", r, last.shape,
              IF IsErr(r) \/ IsNone(r.dtype) THEN NoneVal ELSE r.dtype.dtype,
              last.comms))))

(* _execute(kernel, args, kwargs). *)
_execute(kernel, args, kwargs, fill) ==
    IF \E n \in 1 .. Len(_chain_operands(args, kwargs)) :
           ~IsDArray(_chain_operands(args, kwargs)[n])
    THEN _executed("none", Failing(Raise("RuntimeError"), <<>>),
                   NoneVal, NoneVal, NoneVal)
    ELSE IF _is_peer_access_needed(args, kwargs)
    THEN _execute_peer_access(kernel, args, kwargs, fill)
    ELSE _execute_kernel_chunks(kernel, args, kwargs, fill)

-----------------------------------------------------------------------------
(* Element-wise calls on REPLICA arrays whose chunks hold buffers, with    *)
(* index maps that may differ.                                             *)

(* The REPLICA array of the host buffer H over the mapping M, a chunk per  *)
(* entry of M: each chunk holds H[idx] on its device.                      *)
FromHost(H, M) ==
    DistributedArray(
        H.shape, H.dtype,
        [k \in 1 .. Len(M) |->
            Item(M[k].key,
                 <<Chunk(copy(GetItem(H, M[k].val), M[k].key),
                         [event |-> <<"made", k>>], M[k].val, <<>>,
                         NoneVal)>>)],
        REPLICA, [comms |-> "made"])

(* The same with both chunks of a mapping of two on device 0. *)
FromHostOnOne(H, M) ==
    DistributedArray(
        H.shape, H.dtype,
        <<Item(0, [k \in 1 .. Len(M) |->
                      Chunk(copy(GetItem(H, M[k].val), 0),
                            [event |-> <<"made", k>>], M[k].val, <<>>,
                            NoneVal)])>>,
        REPLICA, [comms |-> "made"])

DArrays ==
    {FromHost(H, M) : H \in HostBuffers(MaxLen, {"int64"}), M \in CoveringPairs}
    \cup {FromHostOnOne(H, M) :
             H \in HostBuffers(MaxLen, {"int64"}), M \in UnitPairs}

MakeDArray ==
    /\ chain = <<>>
    /\ \E x \in DArrays :
          chain' = <<[call |-> [name |-> "DistributedArray"], out |-> x,
                      trace |-> <<>>, path |-> "none"]>>
    /\ UNCHANGED host

(* The call _execute(kernel, args, kwargs) and what came of it. *)
Executed(kernel, args, kwargs, fill) ==
    \E r \in {_execute(kernel, args, kwargs, fill)} :
        chain' = Append(chain,
            [call |-> [name |-> "_execute", kernel |-> kernel, args |-> args,
                       kwargs |-> kwargs],
             out |-> r.out, trace |-> r.trace, path |-> r.path])

CanExecute(n) == Len(chain) = n /\ IsDArray(Last)

(* kernel(x, y) for the array x just made and another array y. *)
ExecuteOnTwo ==
    /\ CanExecute(1)
    /\ \E kernel \in {"add", "multiply", "add_multiply"}, y \in DArrays,
          fill \in Values :
          Executed(kernel, <<Last, y>>, <<>>, fill)
    /\ UNCHANGED host

(* kernel(r, y) for the array r the call before returned and one of its    *)
(* operands y.                                                             *)
ExecuteAgain ==
    /\ CanExecute(2)
    /\ \E kernel \in {"add", "multiply"}, fill \in Values :
          \/ Executed(kernel, <<Last, chain[1].out>>, <<>>, 0)
          \/ Executed(kernel, <<Last, chain[2].call.args[2]>>, <<>>, fill)
    /\ UNCHANGED host

(* Calls with three operands or a keyword operand, or with a cupy.ndarray. *)
ExecuteOnMore ==
    /\ CanExecute(1)
    /\ \E y \in {FromHost(H, M) : H \in HostBuffers(MaxLen, {"int64"}),
                                  M \in UnitPairs} :
          \/ Executed("add", <<Last, y, Last>>, <<>>, 0)
          \/ Executed("add", <<Last, Last, y>>, <<>>, 0)
          \/ Executed("add", <<Last, y>>, <<Item("out", Last)>>, 0)
          \/ Executed("add", <<Last, Last>>, <<Item("out", y)>>, 0)
          \/ Executed("add", <<Last>>, <<Item("out", y)>>, 0)
          \/ Executed("add", <<Last, GetItem(y.chunks_map[1].val[1].data,
                                             <<>>)>>, <<>>, 0)
    /\ UNCHANGED host

NextPeer ==
    \/ MakeDArray
    \/ ExecuteOnTwo
    \/ ExecuteAgain
    \/ ExecuteOnMore

SpecPeer == Init /\ [][NextPeer]_vars

(* The operands of call i, which is a call of _execute on arrays only. *)
ExecutedOn(i) ==
    /\ Called(i, "_execute")
    /\ \A n \in 1 .. Len(Operands(i)) : IsDArray(Operands(i)[n])

(* Some operand's index map differs from another's. *)
MapsDiffer(i) ==
    \E n, m \in 1 .. Len(Operands(i)) :
        ~DictEq(index_map(Operands(i)[n]), index_map(Operands(i)[m]))

(* C23. When the operands do not all share one index map, a call with more *)
(* than two operands or with a keyword operand is rejected with an error   *)
(* before any buffer is allocated and any kernel invoked; the peer-access  *)
(* path is taken exactly when some operand's index map differs from        *)
(* another's.                                                              *)
C23_PeerAccessDispatch ==
    \A i \in 1 .. Len(chain) :
        ExecutedOn(i)
            => /\ chain[i].path = "peer_access" <=> MapsDiffer(i)
               /\ (/\ MapsDiffer(i)
                   /\ \/ Len(Operands(i)) > 2
                      \/ chain[i].call.kwargs # <<>>)
                      => /\ IsErr(chain[i].out)
                         /\ \A p \in 1 .. Len(chain[i].trace) :
                                chain[i].trace[p].op \notin {"empty", "kernel"}

(* Three operands, the third with another index map, were rejected. *)
C23_Witness ==
    /\ Len(chain) = 2
    /\ ExecutedOn(2)
    /\ Len(chain[2].call.args) = 3
    /\ DictEq(index_map(chain[2].call.args[1]), index_map(chain[2].call.args[2]))
    /\ ~DictEq(index_map(chain[2].call.args[1]), index_map(chain[2].call.args[3]))
    /\ IsErr(chain[2].out)
    /\ chain[2].path = "peer_access"

(* The chunks of x, and the global coordinates of a chunk. *)
ChunksOf(x) == all_chunks(x.chunks_map)

ChunkCoords(x, e) == CoordsOf(x.shape, e.chunk.index)

(* The number x holds at the global coordinate g, in a chunk that covers   *)
(* it.                                                                     *)
GlobalValue(x, g) ==
    LET e == ChunksOf(x)[CHOOSE n \in 1 .. Len(ChunksOf(x)) :
                            g \in ChunkCoords(x, ChunksOf(x)[n])]
    IN  e.chunk.data.v[LocalCoord(x.shape, e.chunk.index, g)]

CoversShape(x) ==
    \A g \in Coords(x.shape) :
        \E n \in 1 .. Len(ChunksOf(x)) : g \in ChunkCoords(x, ChunksOf(x)[n])

(* C24. For two REPLICA operands a and b with different index maps that    *)
(* each cover the shape, the peer-access result has a's index map, every   *)
(* cell of every output chunk is written by a kernel invocation, and the   *)
(* result holds the kernel applied pointwise to the operands' global       *)
(* values.                                                                 *)
C24_PeerAccessResult ==
    \A i \in 1 .. Len(chain) :
        (/\ ExecutedOn(i)
         /\ chain[i].call.kernel \in {"add", "multiply"}
         /\ Len(chain[i].call.args) = 2
         /\ chain[i].call.kwargs = <<>>
         /\ MapsDiffer(i)
         /\ CoversShape(chain[i].call.args[1])
         /\ CoversShape(chain[i].call.args[2]))
            => LET a == chain[i].call.args[1]
                   b == chain[i].call.args[2]
                   R == chain[i].out
               IN  /\ IsDArray(R)
                   /\ R.mode = REPLICA
                   /\ R.shape = a.shape
                   /\ index_map(R) = index_map(a)
                   /\ \A n \in 1 .. Len(ChunksOf(R)) :
                          LET e == ChunksOf(R)[n]
                          IN  \A g \in ChunkCoords(R, e) :
                                  LET c == LocalCoord(R.shape, e.chunk.index, g)
                                  IN  /\ e.chunk.data.v[c]
                                          = Apply2(chain[i].call.kernel,
                                                   GlobalValue(a, g),
                                                   GlobalValue(b, g))
                                      /\ \E p \in 1 .. Len(chain[i].trace) :
                                             /\ chain[i].trace[p].op = "kernel"
                                             /\ chain[i].trace[p].dev = e.dev
                                             /\ chain[i].trace[p].chunk_i
                                                    = e.chunk_i
                                             /\ c \in CoordsOf(
                                                    e.chunk.data.shape,
                                                    chain[i].trace[p].idx)

(* Strided chunks of a met two chunks of b on other devices. *)
C24_Witness ==
    /\ Len(chain) = 2
    /\ ExecutedOn(2)
    /\ MapsDiffer(2)
    /\ chain[2].call.kernel = "multiply"
    /\ IsDArray(chain[2].out)
    /\ Len(ChunksOf(chain[2].call.args[1])) = 2
    /\ Len(ChunksOf(chain[2].call.args[2])) = 2
    /\ \E n \in 1 .. 2 :
           ChunksOf(chain[2].call.args[1])[n].chunk.index[1].step = 2
    /\ Cardinality({p \in 1 .. Len(chain[2].trace) :
                       chain[2].trace[p].op = "kernel"}) >= 3

-----------------------------------------------------------------------------
(* Element-wise calls on arrays of one chunk that carries pending updates. *)

(* The lists of at most MaxUpdates int64 updates for a chunk of shape      *)
(* (MaxLen,).                                                              *)
LazyUpdateLists ==
    UNION {{[k \in 1 .. m |-> UpdateOf(k, f[k], "int64")] :
               f \in [1 .. m -> ChunkSlices(MaxLen, 1 .. MaxStep)]} :
              m \in 0 .. MaxUpdates}

(* The REPLICA array of shape (MaxLen,) whose only chunk, on device 0,     *)
(* holds the data and the updates.                                         *)
OfOneChunk(data, updates) ==
    DistributedArray(
        <<MaxLen>>, "int64",
        <<Item(0, <<Chunk(data, ChunkReady, <<Slice(0, MaxLen, 1)>>, updates,
                          NoneVal)>>)>>,
        REPLICA, [comms |-> "made"])

MakeLazy ==
    /\ chain = <<>>
    /\ \E data \in {d \in ChunkData : d.shape = <<MaxLen>>},
          updates \in LazyUpdateLists :
          chain' = <<[call |-> [name |-> "DistributedArray"],
                      out |-> OfOneChunk(data, updates),
                      trace |-> <<>>, path |-> "none"]>>
    /\ UNCHANGED host

(* The operands of a call on the array x the chain has reached and an      *)
(* array y, x where the flag is set.                                       *)
OperandsFrom(reached, x, y) ==
    [n \in 1 .. Len(reached) |-> IF reached[n] THEN x ELSE y]

(* kernel(x, y), kernel(y, x) and kernel(x, x) for the array x the chain   *)
(* has reached and an array y without updates.                             *)
ExecuteLazy ==
    /\ Len(chain) \in 1 .. MaxOps
    /\ IsDArray(Last)
    /\ \E kernel \in {"add", "multiply"},
          H \in HostBuffers(MaxLen, {"int64"}),
          reached \in {<<TRUE, FALSE>>, <<FALSE, TRUE>>, <<TRUE, TRUE>>} :
       \E r \in {_execute(kernel,
                          OperandsFrom(reached, Last,
                                       OfOneChunk(copy(H, 0), <<>>)),
                          <<>>, 0)} :
          chain' = Append(chain,
              [call |-> [name |-> "_execute", kernel |-> kernel,
                         reached |-> reached,
                         other |-> OfOneChunk(copy(H, 0), <<>>)],
               out |-> r.out, trace |-> r.trace, path |-> r.path])
    /\ UNCHANGED host

(* chunk.apply_updates(REPLICA) on the chunk of the array a call returned. *)
ApplyOnOutput ==
    /\ Len(chain) >= 2
    /\ IsDArray(Last)
    /\ \E fill \in Values :
       \E r \in {apply_updates(
                     _chunk_at(Last, 0, 1), REPLICA,
                     [c \in Coords(_chunk_at(Last, 0, 1).data.shape) |->
                         fill])} :
          chain' = Append(chain,
              [call |-> [name |-> "apply_updates", mode |-> REPLICA],
               out |-> IF IsErr(r) THEN r ELSE r.chunk,
               trace |-> IF IsErr(r) THEN <<>> ELSE r.trace,
               path |-> "none"])
    /\ UNCHANGED host

NextLazy ==
    \/ MakeLazy
    \/ ExecuteLazy
    \/ ApplyOnOutput

SpecLazy == Init /\ [][NextLazy]_vars

(* The array of place i of the chain computed eagerly: the updates of the  *)
(* first array are applied to its chunk, and every call is made on what    *)
(* the call before it gives.                                               *)
RECURSIVE Eager(_)
Eager(i) ==
    IF i = 1
    THEN _chunk_replaced(
             chain[1].out, 0, 1,
             apply_updates(
                 _chunk_at(chain[1].out, 0, 1), REPLICA,
                 [c \in Coords(<<MaxLen>>) |-> 0]).chunk)
    ELSE _execute(
             chain[i].call.kernel,
             OperandsFrom(chain[i].call.reached, Eager(i - 1),
                          chain[i].call.other),
             <<>>, 0).out

(* The cells of the first array's chunk that hold numbers once its updates *)
(* are applied: every cell of a buffer, and the cells the updates write of *)
(* a placeholder.                                                          *)
DefinedCells ==
    LET chunk == _chunk_at(chain[1].out, 0, 1)
    IN  IF IsPlaceholder(chunk.data)
        THEN UNION {UpdateCells(chunk.updates[k], <<MaxLen>>) :
                       k \in 1 .. Len(chunk.updates)}
        ELSE Coords(<<MaxLen>>)

(* C30. For operands sharing an index map where one operand's chunk        *)
(* carries pending updates, be it a placeholder or a buffer, running the   *)
(* element-wise kernels of a chain and then apply_updates on the output    *)
(* chunk gives the same data as applying the updates to the operand first  *)
(* and running the kernels then.                                           *)
C30_LazyAgreesWithEager ==
    \A i \in 3 .. Len(chain) :
        (/\ Called(i, "apply_updates")
         /\ IsChunk(chain[i].out))
            => LET lazy == chain[i].out.data
                   eager == _chunk_at(Eager(i - 1), 0, 1).data
               IN  IF IsPlaceholder(lazy) \/ IsPlaceholder(eager)
                   THEN lazy = eager
                   ELSE /\ lazy.shape = eager.shape
                        /\ \A c \in DefinedCells : lazy.v[c] = eager.v[c]

-----------------------------------------------------------------------------
(* Element-wise calls on arrays of two chunks, several of which may carry  *)
(* pending updates at one position.                                        *)

(* The chunk indices of the two positions: they overlap when MaxLen > 2. *)
PositionIdx(i) ==
    IF i = 1 THEN <<Slice(0, MaxLen - 1, 1)>> ELSE <<Slice(1, MaxLen, 1)>>

(* The lists of at most m updates of a chunk of shape (MaxLen - 1,): each  *)
(* writes the first cell or every cell.                                    *)
PositionUpdates(m) ==
    UNION {{[k \in 1 .. n |-> UpdateOf(k, f[k], "int64")] :
               f \in [1 .. n -> {Slice(0, 1, 1), Slice(0, MaxLen - 1, 1)}]} :
              n \in 0 .. m}

(* What the chunk at position i holds: the cells of [b, b + 1, ...] its    *)
(* index selects, or a placeholder.                                        *)
PositionData(i, b) ==
    NdArray(<<MaxLen - 1>>, "int64", 0,
            [c \in Coords(<<MaxLen - 1>>) |-> Real(b + i - 1 + c[1])])

PositionChunks(i, m) ==
    {Chunk(PositionData(i, 1), ChunkReady, PositionIdx(i), u, NoneVal) :
        u \in PositionUpdates(m)}
    \cup {Chunk(DataPlaceholder(<<MaxLen - 1>>, 0), ChunkReady,
                PositionIdx(i), u, NoneVal) :
             u \in IF m = 1 THEN PositionUpdates(m) \ {<<>>}
                   ELSE PositionUpdates(m)}

(* The REPLICA array of the two chunks on device 0. *)
OfTwoChunks(c1, c2) ==
    DistributedArray(<<MaxLen>>, "int64", <<Item(0, <<c1, c2>>)>>, REPLICA,
                     [comms |-> "made"])

(* The operands (x, y), (y, x) or (x, y, x) of a call: the first chunk of  *)
(* x has at most MaxUpdates updates and the other chunks at most one.      *)
MakeOperands ==
    /\ chain = <<>>
    /\ \E x1 \in PositionChunks(1, MaxUpdates),
          x2 \in PositionChunks(2, 1),
          y1 \in PositionChunks(1, 1), y2 \in PositionChunks(2, 1),
          reached \in {<<TRUE, FALSE>>, <<FALSE, TRUE>>,
                       <<TRUE, FALSE, TRUE>>} :
          chain' = <<[call |-> [name |-> "operands"],
                      out |-> OperandsFrom(reached, OfTwoChunks(x1, x2),
                                           OfTwoChunks(y1, y2)),
                      trace |-> <<>>, path |-> "none"]>>
    /\ UNCHANGED host

(* _find_updates(args, {}, 0, chunk_i) on the operands. *)
FindUpdates ==
    /\ Len(chain) = 1
    /\ Called(1, "operands")
    /\ \E chunk_i \in 1 .. 2, fill \in Values :
       \E r \in {_find_updates(Last, 0, chunk_i, fill, <<>>)} :
          chain' = Append(chain,
              [call |-> [name |-> "_find_updates", chunk_i |-> chunk_i],
               out |-> r, trace |-> r.trace, path |-> "none"])
    /\ UNCHANGED host

(* The operands as _execute_kernel leaves them. *)
_execute_kernel_operands(kernel, args, fill) ==
    With(_execute_kernel_loop(
             kernel, Len(args), <<>>, all_chunks(args[1].chunks_map), 1, fill,
             [operands |-> _change_all_to_replica_mode(args),
              chunks_map |-> <<>>, dtype |-> NoneVal, trace |-> <<>>]),
         LAMBDA r : IF IsErr(r) THEN r ELSE [operands |-> r.operands])

(* _execute(kernel, args, {}) on two operands. *)
ExecuteOnOperands ==
    /\ Len(chain) = 1
    /\ Called(1, "operands")
    /\ Len(Last) = 2
    /\ \E kernel \in {"add", "multiply"}, fill \in Values :
       \E r \in {_execute(kernel, Last, <<>>, fill)},
          after \in {_execute_kernel_operands(kernel, Last, fill)} :
          chain' = Append(chain,
              [call |-> [name |-> "_execute", kernel |-> kernel],
               out |-> r.out, trace |-> r.trace, path |-> r.path,
               after |-> after])
    /\ UNCHANGED host

NextFind ==
    \/ MakeOperands
    \/ FindUpdates
    \/ ExecuteOnOperands

SpecFind == Init /\ [][NextFind]_vars

(* The operands of the chain that have pending updates at the position. *)
Having(chunk_i) ==
    {n \in 1 .. Len(chain[1].out) :
        Len(_chunk_at(chain[1].out[n], 0, chunk_i).updates) > 0}

(* The places of the updates, in their order. *)
PlacesOf(updates) == [k \in 1 .. Len(updates) |-> updates[k].idx]

(* Position 2 of a call finds the operands as made unless position 1 had   *)
(* several operands with updates; then it finds none with updates.         *)
HavingAt(chunk_i) ==
    IF chunk_i = 2 /\ Cardinality(Having(1)) > 1 THEN {} ELSE Having(chunk_i)

(* C31. At a chunk position where more than one operand has pending        *)
(* updates, apply_updates is forced on all operands before the kernel      *)
(* reads any data: no operand chunk keeps a pending update and the output  *)
(* chunk receives none. Where at most one operand has pending updates no   *)
(* operand is modified and exactly that operand's updates, in their order, *)
(* are propagated to the output chunk.                                     *)
C31_UpdatesForcedOrPropagated ==
    /\ (Len(chain) = 2 /\ Called(2, "_find_updates"))
          => LET having == Having(chain[2].call.chunk_i)
                 r == chain[2].out
             IN  IF Cardinality(having) > 1
                 THEN /\ r.updates = <<>>
                      /\ \A n \in 1 .. Len(r.operands), i \in 1 .. 2 :
                             LET chunk == _chunk_at(r.operands[n], 0, i)
                                 was == _chunk_at(chain[1].out[n], 0, i)
                             IN  /\ chunk.updates = <<>>
                                 /\ Len(was.updates) > 0
                                        => ~IsPlaceholder(chunk.data)
                 ELSE /\ r.operands = chain[1].out
                      /\ r.trace = <<>>
                      /\ r.updates
                             = IF having = {} THEN <<>>
                               ELSE _chunk_at(
                                        chain[1].out[CHOOSE n \in having : TRUE],
                                        0, chain[2].call.chunk_i).updates
    /\ (Len(chain) = 2 /\ Called(2, "_execute") /\ IsDArray(chain[2].out))
          => /\ \A i \in 1 .. 2 :
                    LET having == HavingAt(i)
                        out == _chunk_at(chain[2].out, 0, i)
                    IN  PlacesOf(out.updates)
                            = IF Cardinality(having) = 1
                              THEN PlacesOf(_chunk_at(
                                       chain[1].out[CHOOSE n \in having : TRUE],
                                       0, i).updates)
                              ELSE <<>>
             /\ (\A i \in 1 .. 2 : Cardinality(Having(i)) <= 1)
                    => chain[2].after.operands = chain[1].out
             /\ Cardinality(Having(1)) > 1
                    => /\ \A n \in 1 .. 2, i \in 1 .. 2 :
                              _chunk_at(chain[2].after.operands[n], 0,
                                        i).updates = <<>>
                       /\ \A p, q \in 1 .. Len(chain[2].trace) :
                              (/\ chain[2].trace[p].op = "write"
                               /\ chain[2].trace[q].op = "kernel") => p < q

(* Both operands had updates at the second position only: the first        *)
(* position passed on none, the second forced them all.                    *)
C31_Witness ==
    /\ Len(chain) = 2
    /\ Called(2, "_execute")
    /\ IsDArray(chain[2].out)
    /\ Having(1) = {}
    /\ Having(2) = {1, 2}
    /\ \E p \in 1 .. Len(chain[2].trace) : chain[2].trace[p].op = "write"
    /\ \A n \in 1 .. 2 :
           _chunk_at(chain[2].after.operands[n], 0, 2).updates = <<>>

(* Whether apply_updates was forced on the operands at or before the       *)
(* position.                                                               *)
ForcedBy(i) == \E j \in 1 .. i : Cardinality(HavingAt(j)) > 1

(* Operand n's chunk at the position is still a placeholder when its data  *)
(* is accessed: it was made one and no forced apply_updates has resolved   *)
(* it.                                                                     *)
StillPlaceholder(n, i) ==
    LET chunk == _chunk_at(chain[1].out[n], 0, i)
    IN  /\ IsPlaceholder(chunk.data)
        /\ ~(ForcedBy(i) /\ Len(chunk.updates) > 0)

(* The kernel invocations of the call for the position. *)
LaunchesAt(i) ==
    {p \in 1 .. Len(chain[2].trace) :
        /\ chain[2].trace[p].op = "kernel"
        /\ chain[2].trace[p].chunk_i = i}

(* C32. In the shared-index-map path the output chunk at a position is a   *)
(* placeholder if and only if some operand's chunk there is still a        *)
(* placeholder when data is accessed; otherwise it is a buffer produced by *)
(* one kernel invocation; the whole-chunk kernel call is never made with a *)
(* placeholder: a placeholder position has only the invocations of its     *)
(* updates.                                                                *)
C32_PlaceholderOutput ==
    (Len(chain) = 2 /\ Called(2, "_execute"))
        => /\ IsDArray(chain[2].out)
           /\ chain[2].path = "kernel"
           /\ \A i \in 1 .. 2 :
                  LET out == _chunk_at(chain[2].out, 0, i)
                  IN  IF \E n \in 1 .. 2 : StillPlaceholder(n, i)
                      THEN /\ IsPlaceholder(out.data)
                           /\ Cardinality(LaunchesAt(i)) = Len(out.updates)
                      ELSE /\ IsNdarray(out.data)
                           /\ out.data.shape = <<MaxLen - 1>>
                           /\ Cardinality(LaunchesAt(i)) = 1 + Len(out.updates)

(* One position gave a placeholder with an update and the other a buffer,  *)
(* from a buffer and a placeholder that a forced apply_updates resolved.   *)
C32_Witness ==
    /\ Len(chain) = 2
    /\ Called(2, "_execute")
    /\ IsDArray(chain[2].out)
    /\ StillPlaceholder(1, 1)
    /\ Len(_chunk_at(chain[2].out, 0, 1).updates) = 1
    /\ IsPlaceholder(_chunk_at(chain[1].out[2], 0, 2).data)
    /\ ~StillPlaceholder(2, 2)
    /\ IsNdarray(_chunk_at(chain[2].out, 0, 2).data)

-----------------------------------------------------------------------------
(* Arrays the executor made, read by the peer-access path.                 *)

(* kernel(r, y) and kernel(y, r) for the array r the chain has reached,    *)
(* whose dtype a kernel call has set, and an array y of two chunks, whose  *)
(* index map differs from r's.                                             *)
PeerOnOutput ==
    /\ Len(chain) = 2
    /\ chain[Len(chain)].path = "kernel"
    /\ IsDArray(Last)
    /\ \E n \in 1 .. Len(ChunksOf(Last)) :
          \/ IsNdarray(ChunksOf(Last)[n].chunk.data)
          \/ Len(ChunksOf(Last)[n].chunk.updates) > 0
    /\ \E H \in HostBuffers(MaxLen, {"int64"}), M \in UnitPairs,
          first \in BOOLEAN :
       \E r \in {_execute("add",
                          OperandsFrom(<<first, ~first>>, Last, FromHost(H, M)),
                          <<>>, 0)} :
          chain' = Append(chain,
              [call |-> [name |-> "_execute", kernel |-> "add",
                         reached |-> <<first, ~first>>,
                         other |-> FromHost(H, M)],
               out |-> r.out, trace |-> r.trace, path |-> r.path])
    /\ UNCHANGED host

NextResolve ==
    \/ MakeLazy
    \/ ExecuteLazy
    \/ PeerOnOutput

SpecResolve == Init /\ [][NextResolve]_vars

(* Call i took the peer-access path on an array the executor returned. *)
PeerRead(i) ==
    /\ i >= 3
    /\ Called(i, "_execute")
    /\ chain[i].path = "peer_access"

(* C33. No reader reads a placeholder: the assertions of the peer-access   *)
(* path that both operands' chunk data are arrays hold for every REPLICA   *)
(* operand the executor produced, also for one whose chunks are            *)
(* placeholders with pending updates, so that the call returns an array.   *)
C33_NoReaderOfPlaceholder ==
    \A i \in 1 .. Len(chain) :
        PeerRead(i) => IsDArray(chain[i].out)

-----------------------------------------------------------------------------
(* The shards after REPLICA -> SUM (under SpecConvert). *)

(* Call i is to_sum_mode on a REPLICA array. *)
ReplicaToSum(i) ==
    /\ i >= 2
    /\ Called(i, "to_sum_mode")
    /\ IsDistributed(chain[i - 1].out)
    /\ chain[i - 1].out.mode = REPLICA

(* C34. In REPLICA -> SUM conversion the part of shard i that intersects a *)
(* later shard j is set to 0 and nothing else changes: a coordinate's      *)
(* value is kept by the last shard that covers it and is 0 in every        *)
(* earlier shard that covers it.                                           *)
C34_ReplicaToSumZeroes ==
    \A i \in 1 .. Len(chain) :
        ReplicaToSum(i)
            => LET X == chain[i - 1].out
                   S == chain[i].out
               IN  /\ IsDistributed(S)
                   /\ S.mode = SUM
                   /\ S.shape = X.shape
                   /\ S.dtype = X.dtype
                   /\ S.device_mapping = X.device_mapping
                   /\ \A k \in Shards(X) : \A c \in ShardCoords(X, k) :
                          ShardValue(S, k, c)
                              = IF \E m \in Covering(X, c) : m > k
                                THEN Real(0) ELSE ShardValue(X, k, c)

(* Shards that overlap in part, with strides and a coordinate that three   *)
(* cover: the first kept a number and lost another.                        *)
C34_Witness ==
    /\ Len(chain) >= 2
    /\ ReplicaToSum(2)
    /\ IsDistributed(chain[2].out)
    /\ Strided(chain[1].out)
    /\ PartlyOverlapping(chain[1].out)
    /\ TriplyCovered(chain[1].out)
    /\ \E c, d \in ShardCoords(chain[1].out, 1) :
           /\ ShardValue(chain[2].out, 1, c) = Real(0)
           /\ ShardValue(chain[1].out, 1, c) # Real(0)
           /\ ShardValue(chain[2].out, 1, d) = ShardValue(chain[1].out, 1, d)
           /\ ShardValue(chain[2].out, 1, d) # Real(0)

-----------------------------------------------------------------------------
(* The array a conversion or reshard was called on, after the call.        *)

ToSumModeFrame ==
    /\ CanCall
    /\ chain' = Append(chain, [call |-> [name |-> "to_sum_mode"],
                               out |-> to_sum_mode(Last),
                               self |-> to_sum_mode_self(Last)])
    /\ UNCHANGED host

ToReplicaModeFrame ==
    /\ CanCall
    /\ chain' = Append(chain, [call |-> [name |-> "to_replica_mode"],
                               out |-> to_replica_mode(Last),
                               self |-> to_replica_mode_self(Last)])
    /\ UNCHANGED host

ReshardFrame ==
    /\ CanCall
    /\ Len(chain) = 1
    /\ \E M \in UnitPairs :
       \E out \in ReshardOutcomes(Last, M) :
          chain' = Append(chain, [call |-> [name |-> "reshard",
                                            device_mapping |-> M],
                                  out |-> out,
                                  self |-> reshard_self(Last)])
    /\ UNCHANGED host

NextFrame ==
    \/ Create(Hosts, CoveringPairs, {REPLICA, SUM})
    \/ ToSumModeFrame
    \/ ToReplicaModeFrame
    \/ ReshardFrame

SpecFrame == Init /\ [][NextFrame]_vars

GlobalCoord(shape, idx, c) ==
    [i \in 1 .. Len(c) |->
        indices(idx[i], shape[i]).start
            + c[i] * indices(idx[i], shape[i]).step]

(* A number that names the global coordinate g, never 0. *)
CoordCode(shape, g) ==
    IF Len(g) = 1 THEN g[1] + 1 ELSE g[1] * shape[2] + g[2] + 1

(* A chunk over idx whose every cell holds the code of its own global      *)
(* coordinate, and one whose every cell holds 0.                           *)
CodedChunk(shape, idx) ==
    NdArray(_shape_after_indexing(shape, idx), "int64", 0,
            [c \in Coords(_shape_after_indexing(shape, idx)) |->
                Real(CoordCode(shape, GlobalCoord(shape, idx, c)))])

BlankChunk(shape, idx) ==
    empty(_shape_after_indexing(shape, idx), "int64", 0, 0)

_rebased(shape, src_idx, dst_idx, intersection) ==
    IF IsNone(intersection) THEN NoneVal
    ELSE [intersection |-> intersection.idx,
          src_new_idx |-> _index_for_subindex(src_idx, intersection.idx,
                                              shape),
          dst_new_idx |-> _index_for_subindex(dst_idx, intersection.idx,
                                              shape)]

RebaseIntersection ==
    /\ chain = <<>>
    /\ \E shape \in {<<MaxLen + 1>>, <<MaxLen, MaxLen>>} :
          \E A, B \in ChunkIndices(shape) :
              chain' = <<Entry([name |-> "_index_for_subindex",
                                src_idx |-> A, dst_idx |-> B,
                                shape |-> shape],
                               _rebased(shape, A, B,
                                        _index_intersection(A, B, shape)))>>
    /\ UNCHANGED host

SendIntersection ==
    /\ chain = <<>>
    /\ \E shape \in {<<MaxLen + 1>>, <<MaxLen, MaxLen>>} :
          \E A, B \in ChunkIndices(shape) :
              chain' = <<Entry([name |-> "_send_intersection",
                                src_idx |-> A, dst_idx |-> B,
                                shape |-> shape],
                               _send_intersection(shape, CodedChunk(shape, A),
                                                  A, BlankChunk(shape, B),
                                                  B))>>
    /\ UNCHANGED host

NextRebase ==
    \/ RebaseIntersection
    \/ SendIntersection

SpecRebase == Init /\ [][NextRebase]_vars

(* The global coordinates new_idx selects in the chunk over idx, in the    *)
(* order in which the view lists them, as a function of the view's         *)
(* coordinates.                                                            *)
SelectedGlobals(shape, idx, new_idx) ==
    LET inner == _shape_after_indexing(shape, idx)
        view  == _shape_after_indexing(inner, new_idx)
    IN  [p \in Coords(view) |->
            GlobalCoord(shape, idx, GlobalCoord(inner, new_idx, p))]

RebasedAgree(shape, c, r) ==
    /\ ~IsErr(r.src_new_idx)
    /\ ~IsErr(r.dst_new_idx)
    /\ LET I    == [p \in Coords(_shape_after_indexing(shape,
                                                       r.intersection)) |->
                       GlobalCoord(shape, r.intersection, p)]
           src  == SelectedGlobals(shape, c.src_idx, r.src_new_idx.idx)
           dst  == SelectedGlobals(shape, c.dst_idx, r.dst_new_idx.idx)
       IN  /\ DOMAIN I # {}
           /\ src = I
           /\ dst = I

SentAgree(shape, c, out) ==
    /\ ~IsErr(out)
    /\ LET I == IF IsNone(_index_intersection(c.src_idx, c.dst_idx, shape))
                THEN {}
                ELSE CoordsOf(shape,
                         _index_intersection(c.src_idx, c.dst_idx,
                                             shape).idx)
       IN  \A l \in Coords(out.shape) :
               LET g == GlobalCoord(shape, c.dst_idx, l)
               IN  out.v[l] = IF g \in I THEN Real(CoordCode(shape, g))
                              ELSE Real(0)

(* C36. For any two chunk indices with a non-empty intersection I, the     *)
(* two indices _index_for_subindex rebases I to select, in the source      *)
(* chunk and in the destination chunk, the same global coordinates in the  *)
(* same order and with the same shape, namely those of I; and              *)
(* _send_intersection writes into each destination cell of I the source    *)
(* cell of the same global coordinate and leaves the other cells alone.    *)
C36_RebasedIndicesPairUp ==
    \A i \in 1 .. Len(chain) :
        /\ (chain[i].call.name = "_index_for_subindex"
               /\ ~IsNone(chain[i].out))
              => RebasedAgree(chain[i].call.shape, chain[i].call,
                              chain[i].out)
        /\ chain[i].call.name = "_send_intersection"
              => SentAgree(chain[i].call.shape, chain[i].call, chain[i].out)

(* Reached: strided chunks of a two-dimensional array that overlap in part *)
(* only, rebased to different indices in the two chunks.                   *)
C36_Witness ==
    /\ Len(chain) = 1
    /\ chain[1].call.name = "_index_for_subindex"
    /\ Len(chain[1].call.shape) = 2
    /\ ~IsNone(chain[1].out)
    /\ chain[1].call.src_idx[1].step = 2
    /\ chain[1].call.dst_idx[1].step = 1
    /\ chain[1].out.src_new_idx # chain[1].out.dst_new_idx
    /\ chain[1].out.intersection # chain[1].call.src_idx
    /\ chain[1].out.intersection # chain[1].call.dst_idx

-----------------------------------------------------------------------------
(* cupyx.distributed.array._data_transfer: what copies and transfers ask   *)
(* of the streams.                                                         *)

(* A cupy.ndarray as an object: the name tells one buffer from another     *)
(* that holds the same numbers.                                            *)
BufferName(kind, n) == [buf |-> kind, n |-> n]

Buffer(name, contiguous, array) ==
    [name |-> name, contiguous |-> contiguous, array |-> array]

(* An Event and a Stream as objects. *)
Event(kind, n) == [event |-> <<kind, n>>]

Stream(dev, n) == [dev |-> dev, n |-> n]

(* get_current_stream() with the device current. *)
get_current_stream(dev) == Stream(dev, 0)

(* ManagedData(data, ready, prevent_gc). *)
ManagedData(data, ready, prevent_gc) ==
    [data |-> data, ready |-> ready, prevent_gc |-> prevent_gc]

(* What is asked of a stream or of the collective library, in the order    *)
(* of the calls: stream.wait_event(event), event.record(stream) or         *)
(* stream.record(event), a copy that reads src into the new buffer dst,    *)
(* cupy.empty, comm.send, comm.recv, nccl.groupStart and nccl.groupEnd.    *)
wait_event(stream, event) ==
    [op |-> "wait_event", stream |-> stream, event |-> event]

record(stream, event) ==
    [op |-> "record", stream |-> stream, event |-> event]

copy_on(stream, src, dst) ==
    [op |-> "copy", stream |-> stream, src |-> src, dst |-> dst]

empty_on(stream, dst) == [op |-> "empty", stream |-> stream, dst |-> dst]

send(stream, src, peer) ==
    [op |-> "send", stream |-> stream, src |-> src, peer |-> peer]

recv(stream, dst, peer) ==
    [op |-> "recv", stream |-> stream, dst |-> dst, peer |-> peer]

groupStart == [op |-> "groupStart"]

groupEnd == [op |-> "groupEnd"]

(* stream.record(): the new event, the trace holding the calls so far. *)
NewEvent(trace) == Event("record", Len(trace) + 1)

(* The buffer a call allocates, the trace holding the calls so far. *)
NewBuffer(kind, trace, array) ==
    Buffer(BufferName(kind, Len(trace) + 1), TRUE, array)

(* Lines 46-49 and 102-105: the copy of a buffer on the current stream of  *)
(* its device.                                                             *)
_copy_data(data, ready) ==
    With(get_current_stream(data.array.device), LAMBDA stream :
    With(<<wait_event(stream, ready)>>, LAMBDA waited :
    With(NewBuffer("copy", waited, copy(data.array, data.array.device)),
         LAMBDA update_data :
    With(waited \o <<copy_on(stream, data.name, update_data.name),
                     record(stream, ready)>>, LAMBDA recorded :
        [data |-> update_data,
         ready |-> NewEvent(recorded),
         trace |-> Append(recorded, record(stream, NewEvent(recorded)))]))))

(* ManagedData.copy(). *)
ManagedData_copy(self) ==
    With(_copy_data(self.data, self.ready), LAMBDA r :
        [out |-> ManagedData(r.data, r.ready, self.prevent_gc),
         trace |-> r.trace])

(* Chunk.copy(). *)
Chunk_copy(self) ==
    IF IsPlaceholder(self.data)
    THEN [out |-> Chunk(self.data, self.ready, self.index, self.updates,
                        self.prevent_gc),
          trace |-> <<>>]
    ELSE With(_copy_data(self.data, self.ready), LAMBDA r :
        [out |-> Chunk(r.data, r.ready, self.index, self.updates,
                       self.prevent_gc),
         trace |-> r.trace])

(* Lines 163-166: the wait and cupy.ascontiguousarray(src_data.data) on    *)
(* the source stream; a contiguous array is returned as it is.             *)
_transfer_contiguous(src_stream, src_data) ==
    With(<<wait_event(src_stream, src_data.ready)>>, LAMBDA waited :
        IF src_data.data.contiguous
        THEN [src_array |-> src_data.data, trace |-> waited]
        ELSE With(NewBuffer("ascontiguousarray", waited, src_data.data.array),
                  LAMBDA src_array :
            [src_array |-> src_array,
             trace |-> Append(waited, copy_on(src_stream, src_data.data.name,
                                              src_array.name))]))

(* The handle keeps nothing alive: the mutant of _transfer_handle. *)
_transfer_handle_bare(dst_buf, ready, src_data, src_array) ==
    DataTransfer(dst_buf, ready, <<NoneVal, NoneVal>>)

(* Lines 184-185: the handle transfer returns. *)
_transfer_handle(dst_buf, ready, src_data, src_array) ==
    DataTransfer(dst_buf, ready, <<src_data, src_array>>)

(* The handle's event is recorded before the collective calls are made:   *)
(* the mutant of _transfer_calls.                                          *)
_transfer_calls_early(src_comm, src_stream, src_data, dst_comm, dst_stream, src_array, dst_buf) ==
    <<empty_on(dst_stream, dst_buf.name),
      groupStart,
      send(src_stream, src_array.name, dst_comm),
      record(src_stream, src_data.ready),
      groupEnd,
      recv(dst_stream, dst_buf.name, src_comm)>>

(* Lines 167-183: the calls between cupy.ascontiguousarray and the return. *)
_transfer_calls(src_comm, src_stream, src_data, dst_comm, dst_stream, src_array, dst_buf) ==
    <<empty_on(dst_stream, dst_buf.name),
      groupStart,
      send(src_stream, src_array.name, dst_comm),
      record(src_stream, src_data.ready),
      recv(dst_stream, dst_buf.name, src_comm),
      groupEnd>>

(* Lines 167-185, s holding src_array and the calls so far: dst_buf holds  *)
(* what recv puts in it.                                                   *)
_transfer_group(src_comm, src_stream, src_data, dst_comm, dst_stream, dst_dev, s) ==
    With(NewBuffer("empty", s.trace, copy(s.src_array.array, dst_dev)),
         LAMBDA dst_buf :
    With(s.trace \o _transfer_calls(src_comm, src_stream, src_data, dst_comm,
                                    dst_stream, s.src_array, dst_buf),
         LAMBDA ended :
        [out |-> _transfer_handle(dst_buf, NewEvent(ended), src_data,
                                  s.src_array),
         trace |-> Append(ended, record(dst_stream, NewEvent(ended)))]))

(* transfer(src_comm, src_stream, src_data, dst_comm, dst_stream, dst_dev) *)
(* of lines 155-185, with the collective library.                          *)
transfer(src_comm, src_stream, src_data, dst_comm, dst_stream, dst_dev) ==
    IF src_data.data.array.device = dst_dev
    THEN [out |-> DataTransfer(src_data.data, src_data.ready, NoneVal),
          trace |-> <<>>]
    ELSE _transfer_group(src_comm, src_stream, src_data, dst_comm,
                         dst_stream, dst_dev,
                         _transfer_contiguous(src_stream, src_data))

(* transfer of lines 193-206, without the collective library. *)
transfer_copy(src_comm, src_stream, src_data, dst_comm, dst_stream, dst_dev) ==
    IF src_data.data.array.device = dst_dev
    THEN [out |-> DataTransfer(src_data.data, src_data.ready, NoneVal),
          trace |-> <<>>]
    ELSE
    With(<<wait_event(dst_stream, src_data.ready)>>, LAMBDA waited :
    With(NewBuffer("copy", waited, copy(src_data.data.array, dst_dev)),
         LAMBDA dst_data :
    With(Append(waited, copy_on(dst_stream, src_data.data.name,
                                dst_data.name)), LAMBDA copied :
        [out |-> DataTransfer(dst_data, NewEvent(copied), src_data.data),
         trace |-> Append(copied, record(dst_stream, NewEvent(copied)))])))

-----------------------------------------------------------------------------
(* A chunk, its copies and transfers, and apply_updates after them. *)

(* The updates pending on a source chunk: the k-th writes one cell. *)
SourceUpdate(k, at) ==
    PartialUpdate(
        DataTransfer(
            Buffer(BufferName("update", k), TRUE,
                   NdArray(<<1>>, "int64", 0,
                           [c \in Coords(<<1>>) |-> Real(10 * k)])),
            Event("update", k), NoneVal),
        <<Slice(at, at + 1, 1)>>)

SourceUpdates ==
    UNION {{[k \in 1 .. m |-> SourceUpdate(k, f[k])] :
               f \in [1 .. m -> Range(MaxLen)]} : m \in 0 .. MaxUpdates}

(* What a source chunk holds: a buffer of shape (MaxLen,) on a device,     *)
(* contiguous or not, or a placeholder.                                    *)
SourceData ==
    {Buffer(BufferName("source", 0), contiguous,
            NdArray(<<MaxLen>>, dtype, dev,
                    [c \in Coords(<<MaxLen>>) |-> Real(b + c[1])])) :
        contiguous \in BOOLEAN, dtype \in {"int64", "complex128"},
        dev \in Range(MaxPair), b \in Values}
    \cup {DataPlaceholder(<<MaxLen>>, dev) : dev \in Range(MaxPair)}

SourceReady == Event("chunk", 0)

IsBuffer(data) == "name" \in DOMAIN data

(* The ManagedData that holds the data and the ready token of a chunk. *)
ManagedOf(chunk) == ManagedData(chunk.data, chunk.ready, chunk.prevent_gc)

(* The streams of a device. *)
StreamsOn(dev) == {Stream(dev, n) : n \in Range(MaxPair)}

MakeSource ==
    /\ chain = <<>>
    /\ \E data \in SourceData, updates \in SourceUpdates :
          chain' = <<[call |-> [name |-> "Chunk"],
                      out |-> Chunk(data, SourceReady, <<FullSlice>>,
                                    updates, [kept |-> "source"]),
                      trace |-> <<>>]>>
    /\ UNCHANGED host

(* An entry of the chain for a call on the chunk chain[1].out. *)
SourceCall(call, r) ==
    Append(chain, [call |-> call, out |-> r.out, trace |-> r.trace])

CopyManaged ==
    /\ Len(chain) = 1
    /\ IsChunk(Last)
    /\ IsBuffer(Last.data)
    /\ chain' = SourceCall([name |-> "ManagedData.copy"],
                           ManagedData_copy(ManagedOf(Last)))
    /\ UNCHANGED host

CopyChunk ==
    /\ Len(chain) = 1
    /\ IsChunk(Last)
    /\ IsPlaceholder(Last.data) \/ IsBuffer(Last.data)
    /\ chain' = SourceCall([name |-> "Chunk.copy"], Chunk_copy(Last))
    /\ UNCHANGED host

Transfer ==
    /\ Len(chain) = 1
    /\ IsChunk(Last)
    /\ IsBuffer(Last.data)
    /\ \E dst_dev \in Devices :
       \E src_stream \in StreamsOn(Last.data.array.device),
          dst_stream \in StreamsOn(dst_dev) :
          chain' = SourceCall(
              [name |-> "transfer", nccl |-> TRUE, src_stream |-> src_stream,
               dst_stream |-> dst_stream, dst_dev |-> dst_dev],
              transfer(Last.data.array.device, src_stream, ManagedOf(Last),
                       dst_dev, dst_stream, dst_dev))
    /\ UNCHANGED host

TransferCopy ==
    /\ Len(chain) = 1
    /\ IsChunk(Last)
    /\ IsBuffer(Last.data)
    /\ \E dst_dev \in Devices :
       \E src_stream \in StreamsOn(Last.data.array.device),
          dst_stream \in StreamsOn(dst_dev) :
          chain' = SourceCall(
              [name |-> "transfer", nccl |-> FALSE, src_stream |-> src_stream,
               dst_stream |-> dst_stream, dst_dev |-> dst_dev],
              transfer_copy(Last.data.array.device, src_stream,
                            ManagedOf(Last), dst_dev, dst_stream, dst_dev))
    /\ UNCHANGED host

(* The chunk as apply_updates takes it: the arrays of its buffers. *)
ArrayOf(data) == IF IsBuffer(data) THEN data.array ELSE data

ArraysOf(chunk) ==
    Chunk(ArrayOf(chunk.data), chunk.ready, chunk.index,
          [k \in 1 .. Len(chunk.updates) |->
              PartialUpdate(DataTransfer(chunk.updates[k].update.data.array,
                                         chunk.updates[k].update.ready,
                                         chunk.updates[k].update.prevent_gc),
                            chunk.updates[k].idx)],
          chunk.prevent_gc)

(* The calls of a trace, each with the stream that was current. *)
OnStream(trace, stream) ==
    [k \in 1 .. Len(trace) |->
        [op |-> trace[k].op, stream |-> stream, call |-> trace[k]]]

(* apply_updates on the source chunk after the copy or the transfer: the   *)
(* chunk holds the data and the ready token the call was given.            *)
ApplyAfter ==
    /\ Len(chain) = 2
    /\ IsChunk(chain[1].out)
    /\ IsPlaceholder(chain[1].out.data) \/ IsBuffer(chain[1].out.data)
    /\ \E mode \in {REPLICA, SUM} :
       \E r \in {apply_updates(ArraysOf(chain[1].out), mode,
                               [c \in Coords(<<MaxLen>>) |-> 0])} :
          chain' = Append(chain,
              [call |-> [name |-> "apply_updates", mode |-> mode],
               out |-> r.chunk,
               trace |-> OnStream(r.trace,
                             get_current_stream(
                                 ArrayOf(chain[1].out.data).device))])
    /\ UNCHANGED host

NextTransfer ==
    \/ MakeSource
    \/ CopyManaged
    \/ CopyChunk
    \/ Transfer
    \/ TransferCopy
    \/ ApplyAfter

SpecTransfer == Init /\ [][NextTransfer]_vars

(* The source chunk and a call of transfer on it. *)
IsTransfer(i) ==
    /\ i = 2
    /\ Len(chain) >= 2
    /\ IsChunk(chain[1].out)
    /\ IsBuffer(chain[1].out.data)
    /\ chain[2].call.name = "transfer"

SameDevice(i) == chain[1].out.data.array.device = chain[i].call.dst_dev

(* The names of the buffers the calls of a trace allocate. *)
Allocated(trace) ==
    {trace[p].dst : p \in {q \in 1 .. Len(trace) :
                               trace[q].op \in {"copy", "empty"}}}

(* C37. transfer to the device the source is on returns a handle with the  *)
(* source's own buffer and the source's own ready event and asks nothing   *)
(* of any stream: no allocation, copy, send or receive.  To another device *)
(* it returns a buffer the call allocated, on the destination device, with *)
(* the source's shape, dtype and contents, and the handle's prevent_gc     *)
(* holds the source buffer.                                                *)
C37_TransferHandle ==
    \A i \in 1 .. Len(chain) :
        IsTransfer(i) =>
            LET src == chain[1].out
                h   == chain[i].out
            IN  IF SameDevice(i)
                THEN /\ h.data = src.data
                     /\ h.ready = src.ready
                     /\ chain[i].trace = <<>>
                ELSE /\ h.data.name # src.data.name
                     /\ h.data.name \in Allocated(chain[i].trace)
                     /\ h.data.array = copy(src.data.array,
                                            chain[i].call.dst_dev)
                     /\ IF chain[i].call.nccl
                        THEN h.prevent_gc[1] = ManagedOf(src)
                        ELSE h.prevent_gc = src.data

(* Reached: a buffer that is not contiguous, transferred to another device *)
(* with the collective library.                                            *)
C37_Witness ==
    /\ IsTransfer(2)
    /\ ~SameDevice(2)
    /\ chain[2].call.nccl
    /\ ~chain[1].out.data.contiguous

(* The places of a trace where a call of the kind is made. *)
PlacesOfOp(trace, op) == {p \in 1 .. Len(trace) : trace[p].op = op}

(* The places where the buffer of the name is read. *)
ReadsOfBuffer(trace, name) ==
    {p \in 1 .. Len(trace) :
        /\ trace[p].op \in {"copy", "send"}
        /\ trace[p].src = name}

IsCopyOrTransfer(i) ==
    /\ i = 2
    /\ Len(chain) >= 2
    /\ IsChunk(chain[1].out)
    /\ IsBuffer(chain[1].out.data)
    /\ chain[2].call.name \in {"ManagedData.copy", "Chunk.copy", "transfer"}

(* After the read at place p the stream that reads is asked to record the  *)
(* event again.                                                            *)
RecordedAfterRead(trace, p, event) ==
    \E q \in p + 1 .. Len(trace) : trace[q] = record(trace[p].stream, event)

(* Every write of apply_updates comes after a wait for the event on the    *)
(* stream that writes.                                                     *)
WritesWaitFor(trace, event) ==
    \A p \in PlacesOfOp(trace, "write") :
        \E w \in 1 .. p - 1 :
            /\ trace[w].op = "wait_event"
            /\ trace[w].stream = trace[p].stream
            /\ trace[w].call.event = event

(* C40. After ManagedData.copy, Chunk.copy and transfer, with or without   *)
(* the collective library, the stream that read the source buffer has      *)
(* recorded the source's ready event again after the read, and a later     *)
(* apply_updates on the source chunk waits for that event before it        *)
(* writes: the write cannot overtake the read, whatever stream reads.      *)
C40_WriteAfterRead ==
    \A i \in 1 .. Len(chain) :
        IsCopyOrTransfer(i) =>
            /\ \A p \in ReadsOfBuffer(chain[i].trace,
                                      chain[1].out.data.name) :
                   RecordedAfterRead(chain[i].trace, p, chain[1].out.ready)
            /\ Len(chain) = 3
                  => WritesWaitFor(chain[3].trace, chain[1].out.ready)

-----------------------------------------------------------------------------
(* cupyx.distributed.array._elementwise: what the executors ask of the     *)
(* stream of one device for the chunks at one position.                    *)

(* A kernel launched on the stream: the buffers it reads and the one it    *)
(* writes.                                                                 *)
kernel_on(stream, reads, dst) ==
    [op |-> "kernel", stream |-> stream, reads |-> reads, dst |-> dst]

(* Only the first operand's chunk is waited for: the mutant of             *)
(* _access_chunks_waits.                                                   *)
_access_chunks_waits_first(stream, chunks) ==
    <<wait_event(stream, chunks[1].ready)>>

(* Lines 49-55: stream.wait_event(chunk.ready) for the chunk of every      *)
(* operand.                                                                *)
_access_chunks_waits(stream, chunks) ==
    [k \in 1 .. Len(chunks) |-> wait_event(stream, chunks[k].ready)]

(* Lines 19-28, for operands of which at most one has updates: the updates *)
(* of that one.                                                            *)
_found_updates(chunks) ==
    IF \E k \in 1 .. Len(chunks) : Len(chunks[k].updates) > 0
    THEN chunks[CHOOSE k \in 1 .. Len(chunks) :
                    Len(chunks[k].updates) > 0].updates
    ELSE <<>>

(* Lines 97-109: the kernel on the whole chunks, unless one is a           *)
(* placeholder.                                                            *)
_whole_chunk_calls(stream, chunks, trace) ==
    IF \E k \in 1 .. Len(chunks) : IsPlaceholder(chunks[k].data)
    THEN trace
    ELSE With(Append(trace,
                     kernel_on(stream,
                               {chunks[k].data.name : k \in 1 .. Len(chunks)},
                               BufferName("new_data", Len(trace) + 1))),
              LAMBDA launched :
                  Append(launched, record(stream, NewEvent(launched))))

(* Lines 119-128: the buffers the kernel of one update reads. *)
_args_slice(chunks, update) ==
    {IF IsPlaceholder(chunks[k].data) THEN update.data.name
     ELSE chunks[k].data.name : k \in 1 .. Len(chunks)}

(* Lines 118-138: the loop over the updates, from the k-th on. *)
RECURSIVE _update_calls(_, _, _, _, _)
_update_calls(stream, chunks, updates, k, trace) ==
    IF k > Len(updates) THEN trace
    ELSE With(trace \o <<wait_event(stream, updates[k].update.ready),
                         kernel_on(stream,
                                   _args_slice(chunks, updates[k].update),
                                   BufferName("new_data", Len(trace) + 2))>>,
              LAMBDA launched :
                  _update_calls(stream, chunks, updates, k + 1,
                                Append(launched,
                                       record(stream, NewEvent(launched)))))

(* Lines 84-138 for one chunk_i of one device. *)
_execute_kernel_calls(dev, chunks) ==
    With(get_current_stream(dev), LAMBDA stream :
        _update_calls(stream, chunks, _found_updates(chunks), 1,
                      _whole_chunk_calls(stream, chunks,
                          _access_chunks_waits(stream, chunks))))

(* Lines 206-225: the loop over the chunks of b, from the j-th on. *)
RECURSIVE _peer_access_calls_b(_, _, _, _, _, _)
_peer_access_calls_b(stream, a_chunk, bs, j, new_chunk_data, trace) ==
    IF j > Len(bs) THEN trace
    ELSE IF IsNone(_index_intersection(a_chunk.index, bs[j].index,
                                       <<MaxLen + 1>>))
    THEN _peer_access_calls_b(stream, a_chunk, bs, j + 1, new_chunk_data,
                              trace)
    ELSE _peer_access_calls_b(
             stream, a_chunk, bs, j + 1, new_chunk_data,
             trace \o <<wait_event(stream, bs[j].ready),
                        kernel_on(stream,
                                  {a_chunk.data.name, bs[j].data.name},
                                  new_chunk_data)>>)

(* Lines 200-228 for one chunk of a on a_dev and the chunks of b. *)
_peer_access_calls(a_dev, a_chunk, bs) ==
    With(get_current_stream(a_dev), LAMBDA stream :
    With(_peer_access_calls_b(
             stream, a_chunk, bs, 1, BufferName("new_chunk_data", 2),
             <<wait_event(stream, a_chunk.ready),
               empty_on(stream, BufferName("new_chunk_data", 2))>>),
         LAMBDA launched :
             Append(launched, record(stream, NewEvent(launched)))))

(* The chunk of the n-th operand at a position: a buffer or a placeholder, *)
(* with the updates given.                                                 *)
OperandChunk(n, dev, holds, idx, updates) ==
    Chunk(IF holds
          THEN Buffer(BufferName("operand", n), TRUE,
                      NdArray(<<MaxLen>>, "int64", dev,
                              [c \in Coords(<<MaxLen>>) |-> Real(n)]))
          ELSE DataPlaceholder(<<MaxLen>>, dev),
          Event("chunk", n), idx, updates, NoneVal)

(* _execute_kernel at one position of two operands that share the index    *)
(* map, as _find_updates leaves them: at most one has updates.             *)
KernelOnChunks ==
    /\ chain = <<>>
    /\ \E dev \in Range(MaxPair), first \in BOOLEAN,
          holds \in [1 .. 2 -> BOOLEAN], updates \in SourceUpdates :
       \E chunks \in {<<OperandChunk(1, dev, holds[1], <<FullSlice>>,
                                     IF first THEN updates ELSE <<>>),
                        OperandChunk(2, dev, holds[2], <<FullSlice>>,
                                     IF first THEN <<>> ELSE updates)>>} :
          chain' = <<[call |-> [name |-> "_execute_kernel",
                                chunks |-> chunks],
                      out |-> [dev |-> dev],
                      trace |-> _execute_kernel_calls(dev, chunks)]>>
    /\ UNCHANGED host

(* _execute_peer_access for one chunk of a and two chunks of b, all with   *)
(* buffers: the assertions of lines 198 and 207 have passed.               *)
PeerOnChunks ==
    /\ chain = <<>>
    /\ \E a_dev \in Range(MaxPair), b_dev \in [1 .. 2 -> Range(MaxPair)],
          a_idx \in {<<Slice(0, MaxLen, 1)>>, <<Slice(1, MaxLen + 1, 2)>>},
          b_idx \in [1 .. 2 -> ChunkIndices(<<MaxLen + 1>>)] :
       \E chunks \in {<<OperandChunk(1, a_dev, TRUE, a_idx, <<>>),
                        OperandChunk(2, b_dev[1], TRUE, b_idx[1], <<>>),
                        OperandChunk(3, b_dev[2], TRUE, b_idx[2], <<>>)>>} :
          chain' = <<[call |-> [name |-> "_execute_peer_access",
                                chunks |-> chunks],
                      out |-> [dev |-> a_dev],
                      trace |-> _peer_access_calls(a_dev, chunks[1],
                                                   Tail(chunks))]>>
    /\ UNCHANGED host

NextStreams ==
    \/ MakeSource
    \/ CopyManaged
    \/ CopyChunk
    \/ Transfer
    \/ TransferCopy
    \/ ApplyAfter
    \/ KernelOnChunks
    \/ PeerOnChunks

SpecStreams == Init /\ [][NextStreams]_vars

(* The chunks a call is given. *)
GivenChunks(i) ==
    IF chain[i].call.name \in {"_execute_kernel", "_execute_peer_access"}
    THEN chain[i].call.chunks
    ELSE <<chain[1].out>>

(* The buffers a call is given, each with the ready token of what holds    *)
(* it: a chunk or an update of a chunk.                                    *)
GivenBuffers(i) ==
    LET chunks == GivenChunks(i)
    IN  {<<chunks[k].data.name, chunks[k].ready>> :
            k \in {n \in 1 .. Len(chunks) : IsBuffer(chunks[n].data)}}
        \cup UNION {{<<chunks[k].updates[u].update.data.name,
                       chunks[k].updates[u].update.ready>> :
                        u \in 1 .. Len(chunks[k].updates)} :
                       k \in 1 .. Len(chunks)}

(* The buffers the call at place p of the trace of chain[i] reads. *)
BuffersRead(i, p) ==
    LET c == chain[i].trace[p]
    IN  IF c.op \in {"copy", "send"} THEN {c.src}
        ELSE IF c.op = "kernel" THEN c.reads
        ELSE IF c.op = "write"
        THEN {chain[1].out.updates[c.call.update].update.data.name}
             \cup (IF is_op_mode(chain[i].call.mode)
                      /\ IsBuffer(chain[1].out.data)
                   THEN {chain[1].out.data.name} ELSE {})
        ELSE {}

(* The event of the wait at place w, if it is one on the stream. *)
WaitsFor(i, w, stream, event) ==
    LET c == chain[i].trace[w]
    IN  /\ c.op = "wait_event"
        /\ c.stream = stream
        /\ (IF "call" \in DOMAIN c THEN c.call.event ELSE c.event) = event

(* The call at place q allocates or fills the buffer on the stream. *)
Produces(i, q, stream, name) ==
    LET c == chain[i].trace[q]
    IN  /\ c.op \in {"copy", "empty", "kernel", "recv"}
        /\ c.stream = stream
        /\ c.dst = name

(* C39. Every buffer a call on a stream reads was given to the operation   *)
(* with a ready token that the same stream was asked to wait for earlier,  *)
(* or was made earlier on that stream by the operation itself: this holds  *)
(* for the executor on chunks that share the index map and its update      *)
(* loop, for the peer-access executor, for Chunk.copy, ManagedData.copy,   *)
(* apply_updates and both transfer functions.                              *)
C39_ReadsWaitForReady ==
    \A i \in 1 .. Len(chain) :
        \A p \in 1 .. Len(chain[i].trace) :
            \A name \in BuffersRead(i, p) :
                \/ \E g \in GivenBuffers(i) :
                      /\ g[1] = name
                      /\ \E w \in 1 .. p - 1 :
                            WaitsFor(i, w, chain[i].trace[p].stream, g[2])
                \/ /\ \A g \in GivenBuffers(i) : g[1] # name
                   /\ \E q \in 1 .. p - 1 :
                         Produces(i, q, chain[i].trace[p].stream, name)

(* Reached: the executor at a position where one operand is a placeholder  *)
(* with updates and the other holds a buffer, so that a kernel reads an    *)
(* update's buffer and the other operand's.                                *)
C39_Witness ==
    /\ Len(chain) = 1
    /\ chain[1].call.name = "_execute_kernel"
    /\ IsPlaceholder(chain[1].call.chunks[1].data)
    /\ Len(chain[1].call.chunks[1].updates) = MaxUpdates
    /\ IsBuffer(chain[1].call.chunks[2].data)
    /\ \E p \in 1 .. Len(chain[1].trace) :
          /\ chain[1].trace[p].op = "kernel"
          /\ chain[1].trace[p].reads
                = {BufferName("update", 1), BufferName("operand", 2)}

=============================================================================
